---- MODULE Spec2Model ----
(***************************************************************************)
(* Template Localization Engine (translation.py, server.py).               *)
(*                                                                         *)
(* A Python str is a sequence of characters, a bytes object a sequence of  *)
(* bytes.  Characters and bytes are one-element strings; the only          *)
(* multi-byte character of the model is U+00A0 (NO-BREAK SPACE), written   *)
(* NBSP as a character and <<NBLead, NBCont>> (C2 A0) as bytes.            *)
(***************************************************************************)
EXTENDS Integers, Sequences, FiniteSets, TLC

VARIABLES
    \* --- escaping (is_already_escaped / unescape_php_string) ---
    esc_pc,            \* "idle" | "input" | "done"
    text_to_wrap,      \* the text handed to the escaping step of apply_changes
    escaped_text,      \* what apply_changes writes between the quotes
    unescaped_text,    \* unescape_php_string(escaped_text)
    \* --- process_file / apply_changes on one template file ---
    rw_pc,             \* "idle" | "start" | "found" | "loop" | "returned" | "raised"
    file_content,      \* the bytes of the template file on disk
    blade_content,     \* process_file: the bytes read from the file
    nodes_to_wrap,     \* process_file: the extraction records (apply_changes: changes)
    modified_content,  \* apply_changes: the progressively rewritten buffer
    approved_changes,  \* apply_changes: the records approved so far
    changes_applied,   \* apply_changes: the count it reports
    next_change,       \* apply_changes: position of the for loop in changes (1-based)
    is_interactive,    \* the -i flag
    new_keys,          \* what process_file returned
    pass_no,           \* 1 for the first run over the file, 2 for the run over its output
    first_output,      \* the file as the first run left it
    last_step,         \* history: the loop iteration that ran last (None before the first)
    rejected_changes,  \* history: the records the operator answered other than 'y' for
    \* --- update_lang_file / filter_existing_keys on one language store ---
    mg_pc,             \* "idle" | "filter" | "merge" | "prompt" | "done"
    project_root,      \* None, or Some("root") when a project root was found
    lang_file,         \* lang/<code>.json: [state: "absent" | "malformed" | "json", data]
    keys_to_check,     \* filter_existing_keys: its argument
    filtered_keys,     \* filter_existing_keys: what it returned
    lang_new_keys,     \* update_lang_file: its argument new_keys (key -> value)
    merge_interactive, \* update_lang_file: its argument is_interactive
    keys_to_update,    \* update_lang_file: key -> value to write
    conflicting_keys,  \* update_lang_file: the keys of its conflicting_keys
    answers,           \* history: key -> the answers the operator gave for it, in order
    file_writes,       \* history: how often update_lang_file wrote the store file
    merge_before,      \* history: the store file and keys_to_check before the calls
    \* --- main after the scan, and translate_and_save ---
    run_pc,            \* "idle" | "filter" | "primary" | "fallback" | "review" |
                       \* "retranslate" | "rereview" | "save" | "done" | "raised"
    stores,            \* language -> the dict in lang/<language>.json
    all_new_keys,      \* main: the keys of all files scanned
    run_interactive,   \* args.interactive
    no_translate,      \* args.no_translate
    hardcoded_translations,        \* config['hardcoded_translations']: None or a table
    use_cmscore_ai_first,          \* config['use_cmscore_ai_first']
    all_filtered_keys,             \* main: the union of the filtered keys
    languages_needing_translation, \* main: the languages with a non-empty filter result
    keys_list,         \* translate_and_save: list(keys_to_translate)
    requests,          \* history: the requests posted, in order, each with its outcome
    using_cmscore_ai,  \* translate_and_save: which reply format it expects
    translations,      \* translate_and_save: language -> key -> first translation
    keys_to_retranslate,           \* translate_and_save: the keys marked 'r'
    retranslate_results,           \* translate_and_save: language -> key -> retranslation
    translated_keys_by_language,   \* translate_and_save: what it hands to update_lang_file
    review_pos,        \* position of the review loop, of the second review, of the save loop
    stores_before,     \* history: stores as the run found them
    \* --- is_already_wrapped on its own ---
    wr_pc,             \* "idle" | "call" | "done"
    wr_content,        \* its argument original_content (bytes)
    wr_start,          \* its argument start_byte
    wr_end,            \* its argument end_byte
    wr_result,         \* what it returned: None, or Some(pure_text)
    wr_content_before, \* history: original_content before the call
    \* --- parse_request_output on its own ---
    ps_pc,             \* "idle" | "call" | "done" | "answered"
    response_text,     \* its argument response_text: the reply of the completion service
    texts_list,        \* its argument texts_list: the keys, in request order
    parse_languages,   \* its argument target_languages: the language labels, in order
    parsed,            \* the "translations" entry of what it returned
    translate_reply,   \* None, or Some(body) the /translate handler answered with
    \* --- is_blade_directive on its own ---
    dr_pc,             \* "idle" | "call" | "done"
    dr_text,           \* its argument text
    dr_result,          \* what it returned
    \* --- main: the loop over the files, and the call of translate_and_save ---
    mn_pc,             \* "idle" | "loop" | "scanned" | "done" | "raised"
    path_args,         \* args.files, each a file: [accepted, root, keys, raises]
    path_pos,          \* position of the loop over args.files
    file_found,        \* main: file_found
    valid_file_path,   \* main: valid_file_path, as Some(position in args.files)
    main_project_root, \* main: project_root
    locale_checked,    \* main: locale_checked
    main_source_language, \* main: source_language
    main_target_languages, \* main: target_languages
    main_all_new_keys, \* main: all_new_keys
    main_no_translate, \* args.no_translate
    main_stores,       \* language -> the dict in its store file
    main_log,          \* history: detections and process_file calls, in order
    translate_calls    \* history: the calls of translate_and_save

escVars == <<esc_pc, text_to_wrap, escaped_text, unescaped_text>>

rwVars == <<rw_pc, file_content, blade_content, nodes_to_wrap, modified_content,
            approved_changes, changes_applied, next_change, is_interactive, new_keys,
            pass_no, first_output, last_step, rejected_changes>>

mergeVars == <<mg_pc, project_root, lang_file, keys_to_check, filtered_keys, lang_new_keys,
               merge_interactive, keys_to_update, conflicting_keys, answers, file_writes,
               merge_before>>

runVars == <<run_pc, stores, all_new_keys, run_interactive, no_translate,
             hardcoded_translations,
             use_cmscore_ai_first, all_filtered_keys, languages_needing_translation,
             keys_list, requests, using_cmscore_ai, translations, keys_to_retranslate,
             retranslate_results, translated_keys_by_language, review_pos, stores_before>>

wrVars == <<wr_pc, wr_content, wr_start, wr_end, wr_result, wr_content_before>>

psVars == <<ps_pc, response_text, texts_list, parse_languages, parsed, translate_reply>>

drVars == <<dr_pc, dr_text, dr_result>>

mnVars == <<mn_pc, path_args, path_pos, file_found, valid_file_path, main_project_root, locale_checked, main_source_language, main_target_languages, main_all_new_keys, main_no_translate, main_stores, main_log, translate_calls>>

vars == <<escVars, rwVars, mergeVars, runVars, wrVars, psVars, drVars, mnVars>>

outsideEscape == <<rwVars, mergeVars, runVars, wrVars, psVars, drVars, mnVars>>
outsideRewrite == <<escVars, mergeVars, runVars, wrVars, psVars, drVars, mnVars>>
outsideMerge == <<escVars, rwVars, runVars, wrVars, psVars, drVars, mnVars>>
outsideRun == <<escVars, rwVars, mergeVars, wrVars, psVars, drVars, mnVars>>
outsideWrapped == <<escVars, rwVars, mergeVars, runVars, psVars, drVars, mnVars>>
outsideParse == <<escVars, rwVars, mergeVars, runVars, wrVars, drVars, mnVars>>
outsideDirective == <<escVars, rwVars, mergeVars, runVars, wrVars, psVars, mnVars>>
outsideMain == <<escVars, rwVars, mergeVars, runVars, wrVars, psVars, drVars>>

(***************************************************************************)
(* Bounds                                                                  *)
(***************************************************************************)
MaxTextLen == 4
MaxSegments == 2
MaxBlocks == 2
MaxTokens == 4
MaxFiles == 3

(***************************************************************************)
(* Characters and bytes                                                    *)
(***************************************************************************)
BS == "\\"
SQ == "'"
SP == " "
NL == "\n"
DQ == "\""
NBSP == "NBSP"
NBLead == "C2"
NBCont == "A0"

None == <<>>
Some(x) == <<x>>
IsNone(o) == o = <<>>
Get(o) == o[1]

\* Python: s[a:b] with 0 <= a, b <= len(s)
PySlice(s, a, b) == SubSeq(s, a + 1, b)

\* Python: s.startswith(p)
StartsWith(s, p) == Len(s) >= Len(p) /\ SubSeq(s, 1, Len(p)) = p

\* Python: s.endswith(p)
EndsWith(s, p) == Len(s) >= Len(p) /\ SubSeq(s, Len(s) - Len(p) + 1, Len(s)) = p

\* Python: s.find(p), 0-based, -1 when absent
Find(s, p) ==
    LET hits == {i \in 0..(Len(s) - Len(p)) : SubSeq(s, i + 1, i + Len(p)) = p}
    IN  IF hits = {} THEN -1 ELSE CHOOSE i \in hits : \A j \in hits : i <= j

\* Python: p in s
Contains(s, p) == Find(s, p) # -1

\* Python: s.replace(old, new): non-overlapping occurrences, left to right
RECURSIVE Replace(_, _, _)
Replace(s, old, new) ==
    IF s = <<>> THEN <<>>
    ELSE IF StartsWith(s, old)
         THEN new \o Replace(SubSeq(s, Len(old) + 1, Len(s)), old, new)
         ELSE <<Head(s)>> \o Replace(Tail(s), old, new)

\* str.encode('utf8')
RECURSIVE Encode(_)
Encode(s) ==
    IF s = <<>> THEN <<>>
    ELSE (IF Head(s) = NBSP THEN <<NBLead, NBCont>> ELSE <<Head(s)>>) \o Encode(Tail(s))

\* bytes.decode('utf8', errors='ignore'): malformed bytes are dropped
RECURSIVE DecodeIgnore(_)
DecodeIgnore(b) ==
    IF b = <<>> THEN <<>>
    ELSE IF Head(b) = NBLead /\ Len(b) >= 2 /\ b[2] = NBCont
         THEN <<NBSP>> \o DecodeIgnore(SubSeq(b, 3, Len(b)))
    ELSE IF Head(b) \in {NBLead, NBCont}
         THEN DecodeIgnore(Tail(b))
    ELSE <<Head(b)>> \o DecodeIgnore(Tail(b))

\* bytes.decode('utf8') succeeds (strict): no byte is malformed
ValidUtf8(b) == Encode(DecodeIgnore(b)) = b

(***************************************************************************)
(* is_already_escaped, unescape_php_string, and the escaping of            *)
(* apply_changes                                                           *)
(***************************************************************************)
is_already_escaped(text) == Contains(text, <<BS, SQ>>) \/ Contains(text, <<BS, BS>>)

unescape_php_string(text) == Replace(Replace(text, <<BS, SQ>>, <<SQ>>), <<BS, BS>>, <<BS>>)

\* text.replace('\\', '\\\\').replace("'", "\\'")
EscapeQuotes(text) == Replace(Replace(text, <<BS>>, <<BS, BS>>), <<SQ>>, <<BS, SQ>>)

\* apply_changes, the not-wrapped branch: escaped_text
EscapedText(text) == IF is_already_escaped(text) THEN text ELSE EscapeQuotes(text)

(***************************************************************************)
(* Character classes of the str methods the extractor uses                 *)
(***************************************************************************)
\* str.strip() removes Unicode whitespace, U+00A0 included
Whitespace == {SP, NBSP, "\n", "\t"}

Digits == {"0", "1", "2", "3", "4", "5", "6", "7", "8", "9"}

Letters == {
    "a", "b", "c", "d", "e", "f", "g", "h", "i", "j", "k", "l", "m",
    "n", "o", "p", "q", "r", "s", "t", "u", "v", "w", "x", "y", "z",
    "A", "B", "C", "D", "E", "F", "G", "H", "I", "J", "K", "L", "M",
    "N", "O", "P", "Q", "R", "S", "T", "U", "V", "W", "X", "Y", "Z"
}

RECURSIVE LStrip(_, _)
LStrip(s, chars) ==
    IF s # <<>> /\ Head(s) \in chars THEN LStrip(Tail(s), chars) ELSE s

RECURSIVE RStrip(_, _)
RStrip(s, chars) ==
    IF s # <<>> /\ s[Len(s)] \in chars THEN RStrip(SubSeq(s, 1, Len(s) - 1), chars) ELSE s

\* str.strip()
Strip(s) == RStrip(LStrip(s, Whitespace), Whitespace)

\* str.isnumeric()
IsNumeric(s) == s # <<>> /\ \A i \in 1..Len(s) : s[i] \in Digits

\* str.isalpha()
IsAlpha(s) == s # <<>> /\ \A i \in 1..Len(s) : s[i] \in Letters

\* s.split(c)[0]
SplitFirst(s, c) == IF Find(s, <<c>>) = -1 THEN s ELSE PySlice(s, 0, Find(s, <<c>>))

(***************************************************************************)
(* is_blade_directive                                                      *)
(***************************************************************************)
blade_directives == {
    <<"i", "f">>, <<"e", "l", "s", "e", "i", "f">>, <<"e", "l", "s", "e">>,
    <<"e", "n", "d", "i", "f">>, <<"f", "o", "r", "e", "a", "c", "h">>,
    <<"e", "n", "d", "f", "o", "r", "e", "a", "c", "h">>, <<"f", "o", "r">>,
    <<"e", "n", "d", "f", "o", "r">>, <<"w", "h", "i", "l", "e">>,
    <<"e", "n", "d", "w", "h", "i", "l", "e">>, <<"s", "w", "i", "t", "c", "h">>,
    <<"c", "a", "s", "e">>, <<"b", "r", "e", "a", "k">>, <<"d", "e", "f", "a", "u", "l", "t">>,
    <<"e", "n", "d", "s", "w", "i", "t", "c", "h">>, <<"p", "h", "p">>,
    <<"e", "n", "d", "p", "h", "p">>, <<"p", "u", "s", "h">>,
    <<"e", "n", "d", "p", "u", "s", "h">>, <<"s", "t", "a", "c", "k">>,
    <<"s", "e", "c", "t", "i", "o", "n">>, <<"e", "n", "d", "s", "e", "c", "t", "i", "o", "n">>,
    <<"y", "i", "e", "l", "d">>, <<"s", "h", "o", "w">>, <<"s", "t", "o", "p">>,
    <<"i", "n", "c", "l", "u", "d", "e">>, <<"e", "x", "t", "e", "n", "d", "s">>,
    <<"c", "o", "m", "p", "o", "n", "e", "n", "t">>,
    <<"e", "n", "d", "c", "o", "m", "p", "o", "n", "e", "n", "t">>, <<"s", "l", "o", "t">>,
    <<"e", "n", "d", "s", "l", "o", "t">>, <<"p", "r", "o", "p", "s">>,
    <<"a", "w", "a", "r", "e">>, <<"a", "u", "t", "h">>, <<"e", "n", "d", "a", "u", "t", "h">>,
    <<"g", "u", "e", "s", "t">>, <<"e", "n", "d", "g", "u", "e", "s", "t">>, <<"c", "a", "n">>,
    <<"e", "n", "d", "c", "a", "n">>, <<"c", "a", "n", "n", "o", "t">>,
    <<"e", "n", "d", "c", "a", "n", "n", "o", "t">>, <<"e", "r", "r", "o", "r">>,
    <<"e", "n", "d", "e", "r", "r", "o", "r">>, <<"e", "m", "p", "t", "y">>,
    <<"e", "n", "d", "e", "m", "p", "t", "y">>, <<"i", "s", "s", "e", "t">>,
    <<"e", "n", "d", "i", "s", "s", "e", "t">>, <<"u", "n", "l", "e", "s", "s">>,
    <<"e", "n", "d", "u", "n", "l", "e", "s", "s">>,
    <<"h", "a", "s", "S", "e", "c", "t", "i", "o", "n">>,
    <<"s", "e", "c", "t", "i", "o", "n", "M", "i", "s", "s", "i", "n", "g">>,
    <<"c", "o", "n", "t", "i", "n", "u", "e">>
}

\* without the rule for block(
is_blade_directive_marker_only(text) ==
    IF ~StartsWith(text, <<"@">>) THEN FALSE
    ELSE LET directive_part == Tail(text)
             directive_name == Strip(SplitFirst(SplitFirst(directive_part, "("), SP))
         IN  \/ directive_name \in blade_directives
             \/ /\ IsAlpha(directive_name)
                /\ \/ Len(directive_part) = Len(directive_name)
                   \/ StartsWith(SubSeq(directive_part, Len(directive_name) + 1,
                                        Len(directive_part)), <<"(">>)

is_blade_directive(text) ==
    IF StartsWith(text, <<"b", "l", "o", "c", "k", "(">>) THEN TRUE
    ELSE IF ~StartsWith(text, <<"@">>) THEN FALSE
    ELSE LET directive_part == Tail(text)
             directive_name == Strip(SplitFirst(SplitFirst(directive_part, "("), SP))
         IN  \/ directive_name \in blade_directives
             \/ /\ IsAlpha(directive_name)
                /\ \/ Len(directive_part) = Len(directive_name)
                   \/ StartsWith(SubSeq(directive_part, Len(directive_name) + 1,
                                        Len(directive_part)), <<"(">>)

(***************************************************************************)
(* is_already_wrapped                                                      *)
(***************************************************************************)
WrapOpen == <<"_", "_", "(", SQ>>
WrapClose == <<SQ, ")">>

\* None when not wrapped, Some(pure_text) when wrapped.  errors='ignore' never raises.
is_already_wrapped(original_content, start_byte, end_byte) ==
    LET actual_text == DecodeIgnore(PySlice(original_content, start_byte, end_byte))
    IN  IF StartsWith(actual_text, WrapOpen) /\ EndsWith(actual_text, WrapClose)
        THEN Some(PySlice(actual_text, 4, Len(actual_text) - 2))
        ELSE None

(***************************************************************************)
(* The syntax tree.  The parser (tree-sitter with the Blade grammar) is an *)
(* external library: the model gives it a file format of its own.  A file  *)
(* is a sequence of segments  <opening token> content <closing token>,     *)
(* the tokens being single bytes that stand for markup:                    *)
(*   TextOpen      <p>                 content is element content          *)
(*   StaticOpen    placeholder="       content is a quoted attribute value *)
(*   DynamicOpen   :placeholder="      the same, name with the ':' marker  *)
(*   OtherOpen     class="             an attribute outside the allow-list *)
(*   UnquotedOpen  placeholder=        an unquoted attribute value         *)
(*   BareOpen      placeholder         an attribute without a value        *)
(* Inside content, {{ ... }} and {!! ... !!} are echo statements, nodes of *)
(* their own; every other maximal run of bytes is one leaf (a text node or *)
(* an attribute_value).                                                    *)
(***************************************************************************)
TextOpen == "<p>"
StaticOpen == "placeholder=\""
DynamicOpen == ":placeholder=\""
OtherOpen == "class=\""
UnquotedOpen == "placeholder="
BareOpen == "placeholder"
Close == "</>"

EchoOpen == <<"{", "{">>
EchoClose == <<"}", "}">>
RawEchoOpen == <<"{", "!", "!">>
RawEchoClose == <<"!", "!", "}">>

\* position of the first p in buf[from:to], -1 when absent
FindIn(buf, p, from, to) ==
    LET r == Find(PySlice(buf, from, to), p) IN IF r = -1 THEN -1 ELSE from + r

\* the leaves of buf[i:e]; run is where the current run of plain bytes began
RECURSIVE ScanContent(_, _, _, _, _)
ScanContent(buf, i, e, run, leaf) ==
    LET flush == IF run < i
                 THEN <<[type |-> leaf, start_byte |-> run, end_byte |-> i]>>
                 ELSE <<>>
    IN  IF i >= e THEN flush
        ELSE LET rest == PySlice(buf, i, e)
                 open == IF StartsWith(rest, RawEchoOpen) THEN RawEchoOpen
                         ELSE IF StartsWith(rest, EchoOpen) THEN EchoOpen ELSE <<>>
                 close == IF open = RawEchoOpen THEN RawEchoClose ELSE EchoClose
                 j == IF open = <<>> THEN -1 ELSE FindIn(buf, close, i + Len(open), e)
             IN  IF j = -1 THEN ScanContent(buf, i + 1, e, run, leaf)
                 ELSE flush
                      \o <<[type |-> "echo", start_byte |-> i, end_byte |-> j + Len(close)]>>
                      \o ScanContent(buf, j + Len(close), e, j + Len(close), leaf)

AttributeName(open) ==
    IF open = DynamicOpen THEN <<":", "placeholder">>
    ELSE IF open = OtherOpen THEN <<"class">>
    ELSE <<"placeholder">>

\* a leaf of element content as a node of the tree
ContentNode(leaf) ==
    [type |-> leaf.type, start_byte |-> leaf.start_byte, end_byte |-> leaf.end_byte,
     original_attr |-> <<>>, value_type |-> "none", children |-> <<>>]

\* parser.parse(blade_content).root_node.children, in file order
RECURSIVE ParseFile(_, _)
ParseFile(buf, i) ==
    IF i >= Len(buf) THEN <<>>
    ELSE LET open == buf[i + 1]
             e == FindIn(buf, <<Close>>, i + 1, Len(buf))
             leaves == ScanContent(buf, i + 1, e, i + 1,
                                   IF open = TextOpen THEN "text" ELSE "attribute_value")
         IN  (IF open = TextOpen
              THEN [k \in 1..Len(leaves) |-> ContentNode(leaves[k])]
              ELSE <<[type |-> "attribute", start_byte |-> i, end_byte |-> e + 1,
                      original_attr |-> AttributeName(open),
                      value_type |-> IF open = BareOpen THEN "none"
                                     ELSE IF open = UnquotedOpen THEN "attribute_value"
                                     ELSE "quoted_attribute_value",
                      children |-> IF open \in {BareOpen, UnquotedOpen} THEN <<>>
                                   ELSE leaves]>>)
             \o ParseFile(buf, e + 1)

(***************************************************************************)
(* find_translatable_nodes.  The result is [raised, changes]: raised when  *)
(* a strict decode of a node's bytes fails (UnicodeDecodeError leaves the  *)
(* function), changes the list appended to changes_list up to there.       *)
(***************************************************************************)
translatable_attributes == {<<"placeholder">>, <<"image-alt">>, <<"aria-label">>}

\* Part 1: a literal text node
TextNodeChanges(node, original_content) ==
    LET original_text_bytes == PySlice(original_content, node.start_byte, node.end_byte)
        stripped_text == Strip(DecodeIgnore(original_text_bytes))
    IN  IF ~ValidUtf8(original_text_bytes) THEN [raised |-> TRUE, changes |-> <<>>]
        ELSE IF is_blade_directive(stripped_text) THEN [raised |-> FALSE, changes |-> <<>>]
        ELSE IF stripped_text # <<>> /\ ~IsNumeric(stripped_text) /\ Len(stripped_text) > 1
        THEN LET start_offset == Find(original_text_bytes, Encode(stripped_text))
                 start_byte == node.start_byte + start_offset
                 end_byte == start_byte + Len(Encode(stripped_text))
                 pure_text == is_already_wrapped(original_content, start_byte, end_byte)
             IN  IF start_offset = -1 THEN [raised |-> FALSE, changes |-> <<>>]
                 ELSE [raised |-> FALSE,
                       changes |-> <<[text |-> IF IsNone(pure_text) THEN stripped_text
                                               ELSE Get(pure_text),
                                      start_byte |-> start_byte,
                                      end_byte |-> end_byte,
                                      attribute_name |-> None,
                                      is_dynamic_attribute |-> FALSE]>>]
        ELSE [raised |-> FALSE, changes |-> <<>>]

\* Part 2, the body of the loop over attr_value_node.children for one attribute_value
\* child that passed the filter
AttributeValueChange(child, attr_text, original_content, attr_name, is_dynamic_attribute) ==
    LET stripped_attr_text == Strip(attr_text)
        start_offset == Find(attr_text, stripped_attr_text)
        start_byte == child.start_byte + start_offset
        end_byte == start_byte + Len(Encode(stripped_attr_text))
        pure_text == is_already_wrapped(original_content, start_byte, end_byte)
        text_to_store ==
            IF /\ is_dynamic_attribute
               /\ StartsWith(stripped_attr_text, <<SQ>>)
               /\ EndsWith(stripped_attr_text, <<SQ>>)
            THEN PySlice(stripped_attr_text, 1, Len(stripped_attr_text) - 1)
            ELSE stripped_attr_text
    IN  [text |-> IF IsNone(pure_text) THEN unescape_php_string(text_to_store)
                  ELSE unescape_php_string(Get(pure_text)),
         start_byte |-> start_byte,
         end_byte |-> end_byte,
         attribute_name |-> Some(attr_name),
         is_dynamic_attribute |-> is_dynamic_attribute]

\* Part 2, the loop over attr_value_node.children from child k on
RECURSIVE AttributeValueLoop(_, _, _, _, _)
AttributeValueLoop(children, k, original_content, attr_name, is_dynamic_attribute) ==
    IF k > Len(children) THEN [raised |-> FALSE, changes |-> <<>>]
    ELSE LET child == children[k]
             bytes == PySlice(original_content, child.start_byte, child.end_byte)
             attr_text == DecodeIgnore(bytes)
             stripped_attr_text == Strip(attr_text)
             rest == AttributeValueLoop(children, k + 1, original_content, attr_name,
                                        is_dynamic_attribute)
         IN  IF child.type # "attribute_value" THEN rest
             ELSE IF ~ValidUtf8(bytes) THEN [raised |-> TRUE, changes |-> <<>>]
             ELSE IF StartsWith(stripped_attr_text, <<"$">>)
                  THEN [raised |-> FALSE, changes |-> <<>>]
             ELSE IF /\ stripped_attr_text # <<>>
                     /\ ~IsNumeric(stripped_attr_text)
                     /\ Len(stripped_attr_text) > 1
                  THEN [raised |-> rest.raised,
                        changes |-> <<AttributeValueChange(child, attr_text, original_content,
                                                           attr_name, is_dynamic_attribute)>>
                                    \o rest.changes]
             ELSE rest

\* Part 2: an attribute node
AttributeChanges(node, original_content) ==
    LET original_attr == node.original_attr
        attr_name == LStrip(original_attr, {":"})
        is_dynamic_attribute == Len(original_attr) # Len(attr_name)
    IN  IF /\ attr_name \in translatable_attributes
           /\ node.value_type # "none"
           /\ node.value_type = "quoted_attribute_value"
        THEN AttributeValueLoop(node.children, 1, original_content, attr_name,
                                is_dynamic_attribute)
        ELSE [raised |-> FALSE, changes |-> <<>>]

\* the walk over the nodes from node k on, in file order
RECURSIVE find_translatable_nodes(_, _, _)
find_translatable_nodes(nodes, k, original_content) ==
    IF k > Len(nodes) THEN [raised |-> FALSE, changes |-> <<>>]
    ELSE LET here == IF nodes[k].type = "text"
                     THEN TextNodeChanges(nodes[k], original_content)
                     ELSE IF nodes[k].type = "attribute"
                     THEN AttributeChanges(nodes[k], original_content)
                     ELSE [raised |-> FALSE, changes |-> <<>>]
             rest == find_translatable_nodes(nodes, k + 1, original_content)
         IN  IF here.raised THEN here
             ELSE [raised |-> rest.raised, changes |-> here.changes \o rest.changes]

(***************************************************************************)
(* apply_changes                                                           *)
(***************************************************************************)
\* list.sort(key=start_byte, reverse=True): stable, descending
RECURSIVE InsertDescending(_, _)
InsertDescending(sorted, c) ==
    IF sorted = <<>> THEN <<c>>
    ELSE IF Head(sorted).start_byte >= c.start_byte
         THEN <<Head(sorted)>> \o InsertDescending(Tail(sorted), c)
         ELSE <<c>> \o sorted

RECURSIVE InsertAscending(_, _)
InsertAscending(sorted, c) ==
    IF sorted = <<>> THEN <<c>>
    ELSE IF Head(sorted).start_byte <= c.start_byte
         THEN <<Head(sorted)>> \o InsertAscending(Tail(sorted), c)
         ELSE <<c>> \o sorted

RECURSIVE SortAscending(_)
SortAscending(changes) ==
    IF changes = <<>> THEN <<>>
    ELSE InsertAscending(SortAscending(SubSeq(changes, 1, Len(changes) - 1)),
                         changes[Len(changes)])

RECURSIVE SortChanges(_)
SortChanges(changes) ==
    IF changes = <<>> THEN <<>>
    ELSE InsertDescending(SortChanges(SubSeq(changes, 1, Len(changes) - 1)),
                          changes[Len(changes)])

Last(seq) == seq[Len(seq)]

IsAttribute(change) == change.attribute_name # None

\* a dynamic attribute gets braces as a static one does
WrappedTextBracesDynamic(change, already_wrapped, original_content) ==
    LET original_wrapped ==
            DecodeIgnore(PySlice(original_content, change.start_byte, change.end_byte))
        escaped == EscapedText(change.text)
    IN  IF already_wrapped
        THEN IF IsAttribute(change)
             THEN <<"{", "!", "!", SP>> \o original_wrapped \o <<SP, "!", "!", "}">>
             ELSE <<"{", "{", SP>> \o original_wrapped \o <<SP, "}", "}">>
        ELSE IF IsAttribute(change)
             THEN <<"{", "!", "!", SP>> \o WrapOpen \o escaped \o WrapClose
                  \o <<SP, "!", "!", "}">>
             ELSE <<"{", "{", SP>> \o WrapOpen \o escaped \o WrapClose \o <<SP, "}", "}">>

\* wrapped_text of an approved change
WrappedText(change, already_wrapped, original_content) ==
    LET original_wrapped ==
            DecodeIgnore(PySlice(original_content, change.start_byte, change.end_byte))
        escaped == EscapedText(change.text)
    IN  IF already_wrapped
        THEN IF IsAttribute(change)
             THEN IF change.is_dynamic_attribute
                  THEN original_wrapped
                  ELSE <<"{", "!", "!", SP>> \o original_wrapped \o <<SP, "!", "!", "}">>
             ELSE <<"{", "{", SP>> \o original_wrapped \o <<SP, "}", "}">>
        ELSE IF IsAttribute(change)
             THEN IF change.is_dynamic_attribute
                  THEN WrapOpen \o escaped \o WrapClose
                  ELSE <<"{", "!", "!", SP>> \o WrapOpen \o escaped \o WrapClose
                       \o <<SP, "!", "!", "}">>
             ELSE <<"{", "{", SP>> \o WrapOpen \o escaped \o WrapClose \o <<SP, "}", "}">>

\* the list keeps the rejected records
ChangesLeftAll(changes, approved, interactive) == changes

\* lines 435-437: with -i the caller's list is emptied and refilled with the approved records
ChangesLeft(changes, approved, interactive) ==
    IF interactive THEN approved ELSE changes

\* a splice that resumes one byte after the span
SpliceDropsNext(content, start, end, wrapped_text) ==
    PySlice(content, 0, start) \o Encode(wrapped_text)
        \o PySlice(content, end + 1, Len(content))

\* modified_content[:start] + wrapped_text.encode('utf8') + modified_content[end:]
Splice(content, start, end, wrapped_text) ==
    PySlice(content, 0, start) \o Encode(wrapped_text) \o PySlice(content, end, Len(content))

(***************************************************************************)
(* Language stores: update_lang_file and filter_existing_keys              *)
(*                                                                         *)
(* A dict is a function from its keys; a store file is absent, holds text  *)
(* json.load rejects, or holds a JSON object of strings.                   *)
(***************************************************************************)
EmptyMap == [key \in {} |-> <<>>]

\* dict.update
Update(d, u) ==
    [key \in DOMAIN d \cup DOMAIN u |-> IF key \in DOMAIN u THEN u[key] ELSE d[key]]

\* d[key] = value
Put(d, key, value) == Update(d, [k \in {key} |-> value])

\* json.load of the store file; {} when the file is absent or does not parse
LoadStore(file) == IF file.state = "json" THEN file.data ELSE EmptyMap

\* the stored value is compared with "" as it stands
IsConflictUnlessEmpty(existing_translations, key, new_value) ==
    /\ key \in DOMAIN existing_translations
    /\ existing_translations[key] # <<>>
    /\ existing_translations[key] # new_value

\* the test of line 566 and its inner comparison: the key goes to conflicting_keys
IsConflict(existing_translations, key, new_value) ==
    /\ key \in DOMAIN existing_translations
    /\ Strip(existing_translations[key]) # <<>>
    /\ existing_translations[key] # new_value

ConflictingKeys(existing_translations, new) ==
    {key \in DOMAIN new : IsConflict(existing_translations, key, new[key])}

\* every new key is written, whatever the store holds
KeysToUpdateAll(existing_translations, new) == new

\* keys_to_update as the loop of lines 565-576 leaves it
KeysToUpdate(existing_translations, new) ==
    [key \in DOMAIN new \ ConflictingKeys(existing_translations, new) |-> new[key]]

\* the file is written with the updated keys alone
WriteStoreOnlyUpdates(file, existing_translations, updates) ==
    IF updates # EmptyMap THEN [state |-> "json", data |-> updates] ELSE file

\* the store file after lines 599-603
WriteStore(file, existing_translations, updates) ==
    IF updates # EmptyMap
    THEN [state |-> "json", data |-> Update(existing_translations, updates)]
    ELSE file

\* the answers the prompt of line 585 accepts, after strip().lower()
KeepAnswers == {"e", "existing"}
NewAnswers == {"n", "new"}
AllAnswers == KeepAnswers \cup NewAnswers \cup {"x"}

\* any accepted answer takes the new value
AnswerAlwaysNew(updates, key, new_value, choice) ==
    IF choice \in KeepAnswers \cup NewAnswers THEN Put(updates, key, new_value) ELSE updates

\* keys_to_update after one answer for key (lines 586-594)
Answer(updates, key, new_value, choice) ==
    IF choice \in NewAnswers THEN Put(updates, key, new_value) ELSE updates

\* only the keys the store does not hold are kept
filter_absent_keys(keys, file, root) ==
    IF IsNone(root) THEN keys
    ELSE {key \in keys : key \notin DOMAIN LoadStore(file)}

filter_existing_keys(keys, file, root) ==
    IF IsNone(root) THEN keys
    ELSE LET existing_translations == LoadStore(file)
         IN  {key \in keys : \/ key \notin DOMAIN existing_translations
                             \/ Strip(existing_translations[key]) = <<>>}

(***************************************************************************)
(* The values the variables of a part of the program have while a          *)
(* specification runs another part                                         *)
(***************************************************************************)
EscIdle ==
    /\ esc_pc = "idle"
    /\ text_to_wrap = <<>>
    /\ escaped_text = <<>>
    /\ unescaped_text = <<>>

RwIdle ==
    /\ rw_pc = "idle"
    /\ file_content = <<>>
    /\ blade_content = <<>>
    /\ nodes_to_wrap = <<>>
    /\ modified_content = <<>>
    /\ approved_changes = <<>>
    /\ changes_applied = 0
    /\ next_change = 1
    /\ is_interactive = FALSE
    /\ new_keys = {}
    /\ pass_no = 1
    /\ first_output = <<>>
    /\ last_step = None
    /\ rejected_changes = <<>>

MergeIdle ==
    /\ mg_pc = "idle"
    /\ project_root = None
    /\ lang_file = [state |-> "absent", data |-> EmptyMap]
    /\ keys_to_check = {}
    /\ filtered_keys = {}
    /\ lang_new_keys = EmptyMap
    /\ merge_interactive = FALSE
    /\ keys_to_update = EmptyMap
    /\ conflicting_keys = {}
    /\ answers = EmptyMap
    /\ file_writes = 0
    /\ merge_before = [lang_file |-> [state |-> "absent", data |-> EmptyMap],
                       keys_to_check |-> {}]

RunIdle ==
    /\ run_pc = "idle"
    /\ stores = EmptyMap
    /\ all_new_keys = {}
    /\ run_interactive = FALSE
    /\ no_translate = FALSE
    /\ hardcoded_translations = None
    /\ use_cmscore_ai_first = FALSE
    /\ all_filtered_keys = {}
    /\ languages_needing_translation = <<>>
    /\ keys_list = <<>>
    /\ requests = <<>>
    /\ using_cmscore_ai = FALSE
    /\ translations = EmptyMap
    /\ keys_to_retranslate = <<>>
    /\ retranslate_results = EmptyMap
    /\ translated_keys_by_language = EmptyMap
    /\ review_pos = 1
    /\ stores_before = EmptyMap

WrIdle ==
    /\ wr_pc = "idle"
    /\ wr_content = <<>>
    /\ wr_start = 0
    /\ wr_end = 0
    /\ wr_result = None
    /\ wr_content_before = <<>>

PsIdle ==
    /\ ps_pc = "idle"
    /\ response_text = <<>>
    /\ texts_list = <<>>
    /\ parse_languages = <<>>
    /\ parsed = EmptyMap
    /\ translate_reply = None

DrIdle ==
    /\ dr_pc = "idle"
    /\ dr_text = <<>>
    /\ dr_result = FALSE

MnIdle ==
    /\ mn_pc = "idle"
    /\ path_args = <<>>
    /\ path_pos = 1
    /\ file_found = FALSE
    /\ valid_file_path = None
    /\ main_project_root = None
    /\ locale_checked = FALSE
    /\ main_source_language = <<>>
    /\ main_target_languages = <<>>
    /\ main_all_new_keys = {}
    /\ main_no_translate = FALSE
    /\ main_stores = EmptyMap
    /\ main_log = <<>>
    /\ translate_calls = <<>>

OutsideEscapeIdle == RwIdle /\ MergeIdle /\ RunIdle /\ WrIdle /\ PsIdle /\ DrIdle /\ MnIdle
OutsideRewriteIdle == EscIdle /\ MergeIdle /\ RunIdle /\ WrIdle /\ PsIdle /\ DrIdle /\ MnIdle
OutsideMergeIdle == EscIdle /\ RwIdle /\ RunIdle /\ WrIdle /\ PsIdle /\ DrIdle /\ MnIdle
OutsideRunIdle == EscIdle /\ RwIdle /\ MergeIdle /\ WrIdle /\ PsIdle /\ DrIdle /\ MnIdle
OutsideWrappedIdle == EscIdle /\ RwIdle /\ MergeIdle /\ RunIdle /\ PsIdle /\ DrIdle /\ MnIdle
OutsideParseIdle == EscIdle /\ RwIdle /\ MergeIdle /\ RunIdle /\ WrIdle /\ DrIdle /\ MnIdle
OutsideDirectiveIdle == EscIdle /\ RwIdle /\ MergeIdle /\ RunIdle /\ WrIdle /\ PsIdle /\ MnIdle
OutsideMainIdle == EscIdle /\ RwIdle /\ MergeIdle /\ RunIdle /\ WrIdle /\ PsIdle /\ DrIdle

(***************************************************************************)
(* Specification SpecEscape: the escaping step on every short text         *)
(***************************************************************************)
EscAlphabet == {"a", SQ, BS}

RECURSIVE TextsUpTo(_, _)
TextsUpTo(alphabet, n) ==
    IF n = 0 THEN {<<>>}
    ELSE LET shorter == TextsUpTo(alphabet, n - 1)
         IN  shorter \cup {Append(s, c) : s \in {x \in shorter : Len(x) = n - 1}, c \in alphabet}

InitEscape ==
    /\ OutsideEscapeIdle
    /\ esc_pc = "input"
    /\ text_to_wrap \in TextsUpTo(EscAlphabet, MaxTextLen)
    /\ escaped_text = <<>>
    /\ unescaped_text = <<>>

EscapeStep ==
    /\ esc_pc = "input"
    /\ escaped_text' = EscapedText(text_to_wrap)
    /\ unescaped_text' = unescape_php_string(escaped_text')
    /\ esc_pc' = "done"
    /\ UNCHANGED <<text_to_wrap, outsideEscape>>

NextEscape == EscapeStep

SpecEscape == InitEscape /\ [][NextEscape]_vars

\* C5: unescape_php_string of the escaped form apply_changes writes returns the text.
C5_RoundTrip == esc_pc = "done" => unescaped_text = text_to_wrap

\* The nearby statement that does hold: texts without an escaped-looking pair round-trip.
C5_RoundTripUnlessLooksEscaped ==
    (esc_pc = "done" /\ ~is_already_escaped(text_to_wrap)) => unescaped_text = text_to_wrap

C5_WitnessHeld ==
    /\ esc_pc = "done"
    /\ Contains(text_to_wrap, <<SQ>>)
    /\ Contains(text_to_wrap, <<BS>>)
    /\ ~is_already_escaped(text_to_wrap)
    /\ escaped_text # text_to_wrap

(***************************************************************************)
(* Specification SpecRewrite: process_file on one template file, run once  *)
(* and, without -i, run a second time over its own output                  *)
(***************************************************************************)
Leads == {<<>>, <<SP>>, <<NBSP>>, <<NBSP, NBSP>>}

Trails == {<<>>, <<SP>>}

Bodies == {
    <<"a", "b">>,
    <<"a">>,
    <<"1", "2">>,
    <<"a", SQ, "b">>,
    <<"a", BS, SQ, "b">>,
    <<"a", BS, "b">>,
    <<"a", "b", "c", "d">>,
    <<SQ, "a", "b", SQ>>,
    <<"$", "a">>,
    <<"@", "i", "f">>,
    WrapOpen \o <<"a", "b">> \o WrapClose,
    WrapOpen \o <<"a", BS, SQ, "b">> \o WrapClose,
    WrapOpen \o <<"a">> \o WrapClose \o <<";">>,
    WrapOpen \o <<"a">> \o WrapClose,
    <<"$", "a">> \o EchoOpen \o EchoClose \o <<"a", "b">>,
    <<"a", "b">> \o EchoOpen \o EchoClose \o <<"$", "a">>,
    WrapOpen \o <<")">>
}

Segment(open, content) == <<open>> \o Encode(content) \o <<Close>>

\* every kind of node with every content
RichSegments ==
    {Segment(open, lead \o body \o trail) :
        open \in {TextOpen, StaticOpen, DynamicOpen},
        lead \in Leads, body \in Bodies, trail \in Trails}
    \cup {Segment(open, <<"a", "b">>) : open \in {OtherOpen, UnquotedOpen}}
    \cup {<<BareOpen, Close>>}

\* the neighbours of a rich segment
PlainSegments == {
    Segment(TextOpen, <<"a", "b">>),
    Segment(StaticOpen, WrapOpen \o <<"a", "b">> \o WrapClose),
    Segment(DynamicOpen, <<SQ, "a", "b", SQ>>)
}

\* the runs of at most n plain segments
RECURSIVE SegmentRuns(_)
SegmentRuns(n) ==
    IF n = 0 THEN {<<>>}
    ELSE LET shorter == SegmentRuns(n - 1)
         IN  shorter \cup {run \o seg : run \in shorter, seg \in PlainSegments}

\* number of segments of a run
RECURSIVE CountSegments(_)
CountSegments(run) ==
    IF run = <<>> THEN 0
    ELSE (IF Head(run) = Close THEN 1 ELSE 0) + CountSegments(Tail(run))

\* a rich segment among plain ones, MaxSegments segments at most
Files ==
    {f[1] \o f[2] \o f[3] :
        f \in {t \in SegmentRuns(MaxSegments - 1) \X RichSegments
                     \X SegmentRuns(MaxSegments - 1) :
                 CountSegments(t[1]) + CountSegments(t[3]) < MaxSegments}}

InitRewrite ==
    /\ OutsideRewriteIdle
    /\ rw_pc = "start"
    /\ file_content \in Files
    /\ blade_content = <<>>
    /\ nodes_to_wrap = <<>>
    /\ modified_content = <<>>
    /\ approved_changes = <<>>
    /\ changes_applied = 0
    /\ next_change = 1
    /\ is_interactive \in BOOLEAN
    /\ new_keys = {}
    /\ pass_no = 1
    /\ first_output = <<>>
    /\ last_step = None
    /\ rejected_changes = <<>>

\* process_file up to the call of apply_changes (validation switched off)
ProcessFileScan ==
    /\ rw_pc = "start"
    /\ blade_content' = file_content
    /\ LET found == find_translatable_nodes(ParseFile(file_content, 0), 1, file_content)
       IN  /\ nodes_to_wrap' = IF found.raised THEN <<>> ELSE found.changes
           /\ rw_pc' = IF found.raised THEN "raised"
                       ELSE IF found.changes = <<>> THEN "returned"
                       ELSE "found"
    /\ UNCHANGED <<file_content, modified_content, approved_changes, changes_applied,
                   next_change, is_interactive, new_keys, pass_no, first_output, last_step,
                   rejected_changes, outsideRewrite>>

\* apply_changes before its loop
ApplyChangesBegin ==
    /\ rw_pc = "found"
    /\ nodes_to_wrap' = SortChanges(nodes_to_wrap)
    /\ modified_content' = blade_content
    /\ changes_applied' = 0
    /\ approved_changes' = <<>>
    /\ next_change' = 1
    /\ rw_pc' = "loop"
    /\ UNCHANGED <<file_content, blade_content, is_interactive, new_keys, pass_no,
                   first_output, last_step, rejected_changes, outsideRewrite>>

\* one iteration of the loop of apply_changes; choice is the operator's answer
ApplyChange ==
    /\ rw_pc = "loop"
    /\ next_change <= Len(nodes_to_wrap)
    /\ LET change == nodes_to_wrap[next_change]
           start == change.start_byte
           end == change.end_byte
           already_wrapped == ~IsNone(is_already_wrapped(modified_content, start, end))
           kept_as_is == /\ is_interactive
                         /\ already_wrapped
                         /\ IsAttribute(change)
                         /\ change.is_dynamic_attribute
       IN  \E choice \in IF is_interactive /\ ~kept_as_is THEN {"y", "n"} ELSE {"-"} :
               LET approved == IF is_interactive THEN ~kept_as_is /\ choice = "y" ELSE TRUE
               IN  /\ approved_changes' = IF kept_as_is \/ approved
                                          THEN Append(approved_changes, change)
                                          ELSE approved_changes
                   /\ modified_content' =
                          IF approved
                          THEN Splice(modified_content, start, end,
                                      WrappedText(change, already_wrapped, blade_content))
                          ELSE modified_content
                   /\ changes_applied' = IF approved THEN changes_applied + 1
                                         ELSE changes_applied
                   /\ last_step' = Some([change |-> change,
                                         already_wrapped |-> already_wrapped,
                                         approved |-> approved,
                                         kept_as_is |-> kept_as_is,
                                         before |-> modified_content])
                   /\ rejected_changes' = IF kept_as_is \/ approved THEN rejected_changes
                                          ELSE Append(rejected_changes, change)
    /\ next_change' = next_change + 1
    /\ UNCHANGED <<rw_pc, file_content, blade_content, nodes_to_wrap, is_interactive,
                   new_keys, pass_no, first_output, outsideRewrite>>

\* the end of apply_changes, and process_file writing the file and returning the keys
ApplyChangesReturn ==
    /\ rw_pc = "loop"
    /\ next_change > Len(nodes_to_wrap)
    /\ nodes_to_wrap' = ChangesLeft(nodes_to_wrap, approved_changes, is_interactive)
    /\ file_content' = modified_content
    /\ new_keys' = {nodes_to_wrap'[i].text : i \in 1..Len(nodes_to_wrap')}
    /\ rw_pc' = "returned"
    /\ UNCHANGED <<blade_content, modified_content, approved_changes, changes_applied,
                   next_change, is_interactive, pass_no, first_output, last_step,
                   rejected_changes, outsideRewrite>>

\* the tool is run again on the file a run without -i left
RunAgain ==
    /\ rw_pc = "returned"
    /\ pass_no = 1
    /\ ~is_interactive
    /\ pass_no' = 2
    /\ first_output' = file_content
    /\ rw_pc' = "start"
    /\ blade_content' = <<>>
    /\ nodes_to_wrap' = <<>>
    /\ modified_content' = <<>>
    /\ approved_changes' = <<>>
    /\ changes_applied' = 0
    /\ next_change' = 1
    /\ new_keys' = {}
    /\ last_step' = None
    /\ rejected_changes' = <<>>
    /\ UNCHANGED <<file_content, is_interactive, outsideRewrite>>

NextRewrite ==
    \/ ProcessFileScan
    \/ ApplyChangesBegin
    \/ ApplyChange
    \/ ApplyChangesReturn
    \/ RunAgain

SpecRewrite == InitRewrite /\ [][NextRewrite]_vars

\* records derived from disjoint nodes: no two spans share a byte
NonOverlapping(changes) ==
    \A i, j \in 1..Len(changes) :
        i # j => \/ changes[i].end_byte <= changes[j].start_byte
                 \/ changes[j].end_byte <= changes[i].start_byte

\* C1: apply_changes processes pairwise non-overlapping records in descending start_byte
\* order, and when a record is about to be processed the rewritten buffer still holds the
\* original bytes at [start_byte, end_byte), so is_already_wrapped answers as on the original.
C1_RightToLeftKeepsOffsets ==
    (rw_pc = "loop" /\ NonOverlapping(nodes_to_wrap)) =>
        /\ \A i \in 1..Len(nodes_to_wrap) : \A j \in 1..Len(nodes_to_wrap) :
               i < j => nodes_to_wrap[i].start_byte > nodes_to_wrap[j].start_byte
        /\ (last_step # None /\ next_change <= Len(nodes_to_wrap)) =>
               Get(last_step).change.start_byte > nodes_to_wrap[next_change].start_byte
        /\ \A j \in next_change..Len(nodes_to_wrap) :
               LET c == nodes_to_wrap[j]
               IN  /\ PySlice(modified_content, c.start_byte, c.end_byte)
                        = PySlice(blade_content, c.start_byte, c.end_byte)
                   /\ is_already_wrapped(modified_content, c.start_byte, c.end_byte)
                        = is_already_wrapped(blade_content, c.start_byte, c.end_byte)

\* a second record is about to be processed after a replacement that changed the length
C1_Witness ==
    /\ rw_pc = "loop"
    /\ next_change = 2
    /\ Len(nodes_to_wrap) >= 2
    /\ last_step # None
    /\ Get(last_step).approved
    /\ Len(modified_content) # Len(blade_content)

\* the replacement the rewrite table gives for a span that is not wrapped yet
TableReplacement(change) ==
    LET call == WrapOpen \o EscapedText(change.text) \o WrapClose
    IN  IF ~IsAttribute(change) THEN <<"{", "{", SP>> \o call \o <<SP, "}", "}">>
        ELSE IF change.is_dynamic_attribute THEN call
        ELSE <<"{", "!", "!", SP>> \o call \o <<SP, "!", "!", "}">>

\* C2: an approved record whose span is not wrapped has exactly [start_byte, end_byte)
\* replaced by {{ __('E') }} (text node), {!! __('E') !!} (static attribute) or __('E')
\* (dynamic attribute), E the escaped form of the record's text.
C2_NotWrappedReplacement ==
    (last_step # None /\ Get(last_step).approved /\ ~Get(last_step).already_wrapped) =>
        LET step == Get(last_step)
            c == step.change
        IN  modified_content =
                PySlice(step.before, 0, c.start_byte)
                \o Encode(TableReplacement(c))
                \o PySlice(step.before, c.end_byte, Len(step.before))

\* a dynamic attribute whose text needed escaping was wrapped without braces
C2_Witness ==
    /\ last_step # None
    /\ Get(last_step).approved
    /\ ~Get(last_step).already_wrapped
    /\ Get(last_step).change.is_dynamic_attribute
    /\ EscapedText(Get(last_step).change.text) # Get(last_step).change.text
    /\ modified_content # Get(last_step).before

\* C3: an approved record whose span is already wrapped gets the existing call put inside
\* {{ }} (text node) or {!! !!} (static attribute); the bytes of a dynamic attribute's span
\* stay as they are, with and without -i.
C3_AlreadyWrappedReplacement ==
    (/\ last_step # None
     /\ Get(last_step).approved \/ Get(last_step).kept_as_is
     /\ Get(last_step).already_wrapped) =>
        LET step == Get(last_step)
            c == step.change
            existing == PySlice(step.before, c.start_byte, c.end_byte)
            call == Encode(DecodeIgnore(existing))
        IN  IF IsAttribute(c) /\ c.is_dynamic_attribute
            THEN modified_content = step.before
            ELSE modified_content =
                     PySlice(step.before, 0, c.start_byte)
                     \o (IF IsAttribute(c)
                         THEN <<"{", "!", "!", SP>> \o call \o <<SP, "!", "!", "}">>
                         ELSE <<"{", "{", SP>> \o call \o <<SP, "}", "}">>)
                     \o PySlice(step.before, c.end_byte, Len(step.before))

\* C4: a second run over the output of a run without -i leaves the file as the first run
\* left it.
C4_SecondRunChangesNothing ==
    (pass_no = 2 /\ rw_pc = "returned") => file_content = first_output

\* the texts of a list of records, de-duplicated
TextsOf(changes) == {changes[i].text : i \in 1..Len(changes)}

\* C15: with -i, a record the operator rejects leaves the buffer, the approved list and
\* the count as they were; once process_file has returned, no rejected record is in the
\* list apply_changes left, the returned keys are exactly the texts of the records in
\* that list, and a rejected record's text is among them only when a record in the list
\* carries the same text.
C15_RejectedRecordDropped ==
    /\ (is_interactive /\ last_step # None
            /\ ~Get(last_step).approved /\ ~Get(last_step).kept_as_is) =>
           /\ modified_content = Get(last_step).before
           /\ rejected_changes # <<>>
           /\ Last(rejected_changes) = Get(last_step).change
           /\ \A i \in 1..Len(approved_changes) :
                  approved_changes[i] # Get(last_step).change
    /\ (is_interactive /\ rw_pc = "returned" /\ last_step # None) =>
           /\ nodes_to_wrap = approved_changes
           /\ new_keys = TextsOf(approved_changes)
           /\ file_content = modified_content
           /\ \A i \in 1..Len(rejected_changes) :
                  /\ \A j \in 1..Len(nodes_to_wrap) : nodes_to_wrap[j] # rejected_changes[i]
                  /\ rejected_changes[i].text \in new_keys =>
                         \E j \in 1..Len(approved_changes) :
                             approved_changes[j].text = rejected_changes[i].text

\* one of two records with different texts was rejected and the other approved
C15_Witness ==
    /\ is_interactive
    /\ rw_pc = "returned"
    /\ Len(rejected_changes) = 1
    /\ Len(approved_changes) = 1
    /\ changes_applied = 1
    /\ rejected_changes[1].text \notin new_keys
    /\ new_keys = {approved_changes[1].text}
    /\ file_content # blade_content

\* a rejected record shares its text with an approved one, and the text is returned
C15_WitnessSharedText ==
    /\ is_interactive
    /\ rw_pc = "returned"
    /\ Len(rejected_changes) = 1
    /\ rejected_changes[1].text \in new_keys

\* C16: every record find_translatable_nodes emits has start_byte < end_byte and a text
\* longer than one character that is not purely numeric.
C16_RecordsWellFormed ==
    rw_pc = "found" =>
        \A i \in 1..Len(nodes_to_wrap) :
            /\ nodes_to_wrap[i].start_byte < nodes_to_wrap[i].end_byte
            /\ Len(nodes_to_wrap[i].text) > 1
            /\ ~IsNumeric(nodes_to_wrap[i].text)

\* the part of C16 about the span
C16_SpanNotEmpty ==
    rw_pc = "found" =>
        \A i \in 1..Len(nodes_to_wrap) :
            nodes_to_wrap[i].start_byte < nodes_to_wrap[i].end_byte

(***************************************************************************)
(* Specification SpecMerge: filter_existing_keys, then update_lang_file,   *)
(* on one language store                                                   *)
(***************************************************************************)
MaxReprompts == 1

MergeKeys == {"Home", "Bye"}
MergeValues == {<<>>, <<SP>>, <<"v">>, <<"w">>}

Maps(keys, values) == UNION {[d -> values] : d \in SUBSET keys}

StoreFiles ==
    {[state |-> "absent", data |-> EmptyMap], [state |-> "malformed", data |-> EmptyMap]}
        \cup {[state |-> "json", data |-> d] : d \in Maps(MergeKeys, MergeValues)}

InitMerge ==
    /\ OutsideMergeIdle
    /\ mg_pc = "filter"
    /\ project_root \in {None, Some("root")}
    /\ lang_file \in IF IsNone(project_root) THEN {[state |-> "absent", data |-> EmptyMap]}
                     ELSE StoreFiles
    /\ keys_to_check \in SUBSET MergeKeys
    /\ filtered_keys = {}
    /\ lang_new_keys \in Maps(MergeKeys, MergeValues)
    /\ merge_interactive \in BOOLEAN
    /\ keys_to_update = EmptyMap
    /\ conflicting_keys = {}
    /\ answers = [key \in MergeKeys |-> <<>>]
    /\ file_writes = 0
    /\ merge_before = [lang_file |-> lang_file, keys_to_check |-> keys_to_check]

FilterExistingKeys ==
    /\ mg_pc = "filter"
    /\ filtered_keys' = filter_existing_keys(keys_to_check, lang_file, project_root)
    /\ mg_pc' = "merge"
    /\ UNCHANGED <<project_root, lang_file, keys_to_check, lang_new_keys, merge_interactive,
                   keys_to_update, conflicting_keys, answers, file_writes, merge_before,
                   outsideMerge>>

\* update_lang_file up to its first prompt, or to its end when it does not prompt
UpdateLangFileBegin ==
    /\ mg_pc = "merge"
    /\ IF IsNone(project_root)
       THEN /\ mg_pc' = "done"
            /\ UNCHANGED <<lang_file, keys_to_update, conflicting_keys, file_writes>>
       ELSE LET created == lang_file.state = "absent"
                file == IF created THEN [state |-> "json", data |-> EmptyMap] ELSE lang_file
                existing_translations == LoadStore(file)
                conflicts == ConflictingKeys(existing_translations, lang_new_keys)
                updates == KeysToUpdate(existing_translations, lang_new_keys)
                prompting == conflicts # {} /\ merge_interactive
            IN  /\ keys_to_update' = updates
                /\ conflicting_keys' = conflicts
                /\ mg_pc' = IF prompting THEN "prompt" ELSE "done"
                /\ lang_file' = IF prompting THEN file
                                ELSE WriteStore(file, existing_translations, updates)
                /\ file_writes' = (IF created THEN 1 ELSE 0)
                                  + (IF ~prompting /\ updates # EmptyMap THEN 1 ELSE 0)
    /\ UNCHANGED <<project_root, keys_to_check, filtered_keys, lang_new_keys,
                   merge_interactive, answers, merge_before, outsideMerge>>

\* the conflicting keys whose prompt loop has not ended
Pending ==
    {key \in conflicting_keys :
        answers[key] = <<>> \/ Last(answers[key]) \notin KeepAnswers \cup NewAnswers}

\* one answer to the prompt of line 585; after the last one the store is written
PromptAnswer ==
    /\ mg_pc = "prompt"
    /\ \E key \in {k \in Pending : (\E j \in Pending : answers[j] # <<>>) => answers[k] # <<>>},
          choice \in AllAnswers :
          LET valid == choice \in KeepAnswers \cup NewAnswers
              updates == Answer(keys_to_update, key, lang_new_keys[key], choice)
              finished == valid /\ Pending = {key}
          IN  /\ valid \/ Len(answers[key]) < MaxReprompts
              /\ answers' = [answers EXCEPT ![key] = Append(@, choice)]
              /\ keys_to_update' = updates
              /\ mg_pc' = IF finished THEN "done" ELSE "prompt"
              /\ lang_file' = IF finished
                              THEN WriteStore(lang_file, LoadStore(lang_file), updates)
                              ELSE lang_file
              /\ file_writes' = IF finished /\ updates # EmptyMap THEN file_writes + 1
                                ELSE file_writes
    /\ UNCHANGED <<project_root, keys_to_check, filtered_keys, lang_new_keys,
                   merge_interactive, conflicting_keys, merge_before, outsideMerge>>

NextMerge ==
    \/ FilterExistingKeys
    \/ UpdateLangFileBegin
    \/ PromptAnswer

SpecMerge == InitMerge /\ [][NextMerge]_vars

\* the store as the calls found it and as it is now
StoreBefore == LoadStore(merge_before.lang_file)
StoreNow == LoadStore(lang_file)

MergeRan == mg_pc = "done" /\ ~IsNone(project_root)

\* C6 as stated: without -i, a key whose stored value is a non-empty string that
\* differs from the new value has its stored value after the merge.
C6_NonEmptyExistingKept ==
    (MergeRan /\ ~merge_interactive) =>
        \A key \in DOMAIN lang_new_keys \cap DOMAIN StoreBefore :
            (StoreBefore[key] # <<>> /\ StoreBefore[key] # lang_new_keys[key])
                => (key \in DOMAIN StoreNow /\ StoreNow[key] = StoreBefore[key])

\* C6 amended: without -i, a key whose stored value is not blank (non-empty after
\* stripping whitespace) and differs from the new value has its stored value after the
\* merge; a stored value of whitespace only is replaced like an empty one.
C6_NonBlankExistingKept ==
    (MergeRan /\ ~merge_interactive) =>
        \A key \in DOMAIN lang_new_keys \cap DOMAIN StoreBefore :
            /\ (Strip(StoreBefore[key]) # <<>> /\ StoreBefore[key] # lang_new_keys[key])
                   => (key \in DOMAIN StoreNow /\ StoreNow[key] = StoreBefore[key])
            /\ (StoreBefore[key] # <<>> /\ Strip(StoreBefore[key]) = <<>>)
                   => (key \in DOMAIN StoreNow /\ StoreNow[key] = lang_new_keys[key])

\* a merge without -i that kept a differing stored value and wrote another key
C6_Witness ==
    /\ MergeRan
    /\ ~merge_interactive
    /\ file_writes = 1
    /\ \E key \in DOMAIN lang_new_keys \cap DOMAIN StoreBefore :
           /\ Strip(StoreBefore[key]) # <<>>
           /\ StoreBefore[key] # lang_new_keys[key]
           /\ StoreNow[key] = StoreBefore[key]
    /\ \E key \in DOMAIN lang_new_keys : StoreNow[key] = lang_new_keys[key]
                                         /\ key \notin DOMAIN StoreBefore

\* what C7 requires of one key, for a given reading of "conflicting"
AskedAndObeyed(key, conflicting) ==
    LET given == answers[key]
    IN  /\ ~conflicting => given = <<>>
        /\ \A i \in 1..(Len(given) - 1) : given[i] \notin KeepAnswers \cup NewAnswers
        /\ conflicting =>
               /\ mg_pc = "done" =>
                      /\ given # <<>>
                      /\ Last(given) \in KeepAnswers \cup NewAnswers
                      /\ key \in DOMAIN StoreNow
                      /\ StoreNow[key] = IF Last(given) \in NewAnswers
                                         THEN lang_new_keys[key] ELSE StoreBefore[key]
               /\ mg_pc = "prompt" =>
                      /\ lang_file = merge_before.lang_file
                      /\ key \in DOMAIN keys_to_update
                             <=> (given # <<>> /\ Last(given) \in NewAnswers)

\* C7 as stated: with -i, every key whose stored value is a non-empty string differing
\* from the new one is prompted for, the store ends with the value the operator chose,
\* and an invalid answer only repeats the prompt.
C7_NonEmptyConflictAsked ==
    (merge_interactive /\ ~IsNone(project_root) /\ mg_pc \in {"prompt", "done"}) =>
        \A key \in DOMAIN lang_new_keys :
            AskedAndObeyed(key, /\ key \in DOMAIN StoreBefore
                                /\ StoreBefore[key] # <<>>
                                /\ StoreBefore[key] # lang_new_keys[key])

\* C7 amended: with -i, every key whose stored value is not blank (non-empty after
\* stripping whitespace) and differs from the new one is prompted for in one prompt loop,
\* the store ends with the new value on 'n'/'new' and the stored one on 'e'/'existing',
\* an invalid answer repeats the prompt and changes nothing, and no other key is
\* prompted for.
C7_NonBlankConflictAsked ==
    (merge_interactive /\ ~IsNone(project_root) /\ mg_pc \in {"prompt", "done"}) =>
        \A key \in DOMAIN lang_new_keys :
            AskedAndObeyed(key, /\ key \in DOMAIN StoreBefore
                                /\ Strip(StoreBefore[key]) # <<>>
                                /\ StoreBefore[key] # lang_new_keys[key])

\* a merge with -i in which one key was kept after an invalid answer and another replaced
C7_Witness ==
    /\ MergeRan
    /\ merge_interactive
    /\ \E key \in conflicting_keys :
           /\ Len(answers[key]) = 2
           /\ Last(answers[key]) \in KeepAnswers
           /\ StoreNow[key] = StoreBefore[key]
    /\ \E key \in conflicting_keys :
           /\ Last(answers[key]) \in NewAnswers
           /\ StoreNow[key] = lang_new_keys[key]

FilterRan == mg_pc = "merge"

\* C9 as stated: the keys returned are exactly those absent from the store or stored
\* with the empty string, and keys_to_check is as it was.
C9_FilterKeepsAbsentOrEmpty ==
    FilterRan =>
        /\ filtered_keys = {key \in merge_before.keys_to_check :
                               \/ key \notin DOMAIN StoreBefore
                               \/ StoreBefore[key] = <<>>}
        /\ keys_to_check = merge_before.keys_to_check

\* C9 amended: the keys returned are exactly those absent from the store or stored with a
\* blank value (empty after stripping whitespace); a key stored with a non-blank value is
\* never returned, and keys_to_check is as it was.
C9_FilterKeepsAbsentOrBlank ==
    FilterRan =>
        /\ filtered_keys = {key \in merge_before.keys_to_check :
                               \/ key \notin DOMAIN StoreBefore
                               \/ Strip(StoreBefore[key]) = <<>>}
        /\ keys_to_check = merge_before.keys_to_check

\* a filter call that dropped a translated key and kept an untranslated one
C9_Witness ==
    /\ FilterRan
    /\ \E key \in keys_to_check \ filtered_keys : Strip(StoreBefore[key]) # <<>>
    /\ \E key \in filtered_keys : key \in DOMAIN StoreBefore

(***************************************************************************)
(* Specification SpecRun: main after the scan (pre-filtering), then        *)
(* translate_and_save with its two endpoints, the review and the merges    *)
(*                                                                         *)
(* A reply is the language -> key -> translation mapping it yields, in the *)
(* format of the endpoint that sent it.  An invalid answer to a review     *)
(* prompt repeats the prompt and changes nothing: it is a stuttering step. *)
(***************************************************************************)
target_languages == <<"L1", "L2">>

Range(seq) == {seq[i] : i \in 1..Len(seq)}

\* list(a_set): the set's elements in some order
Orders(set) ==
    {order \in [1..Cardinality(set) -> set] : \A i, j \in 1..Cardinality(set) :
                                                  order[i] = order[j] => i = j}

\* API_SERVICE_ENDPOINT + "translate" and MAX_SERVICE_ENDPOINT + ai_model, each with
\* the headers and the body shape translate_and_save builds for it
TranslateService == [endpoint |-> "translate", headers |-> None, body |-> "texts",
                     format |-> "json"]
CompletionService == [endpoint |-> "completion", headers |-> Some("Bearer"),
                      body |-> "prompt", format |-> "text"]

\* the endpoint of the other service is used with the headers and body of this one
PrimaryOfEndpointOnly(cmscore_first) ==
    IF cmscore_first THEN [TranslateService EXCEPT !.endpoint = CompletionService.endpoint,
                                                   !.format = CompletionService.format]
    ELSE TranslateService

\* lines 828-831: the roles after the swap
PrimaryOf(cmscore_first) == IF cmscore_first THEN CompletionService ELSE TranslateService
SecondaryOf(cmscore_first) == IF cmscore_first THEN TranslateService ELSE CompletionService

\* what comes of a request: an exception of requests.post, a status other than 200, a
\* 200 whose body is the JSON the endpoint documents, a 200 whose body is not JSON
Outcomes == {"exception", "status500", "ok", "ok_not_json"}

\* not response or response.status_code != 200 (lines 844, 858, 956)
Failed(outcome) == outcome \in {"exception", "status500"}

FirstTranslation == <<"t">>
Retranslation == <<"u">>
ManualTranslation == <<"m">>
StoredTranslation == <<"v">>

\* the text of a key, used as its own translation when none is at hand
KeyText(key) == <<key>>

\* a missing entry reads as ""
LookupOrEmpty(tr, lang, key, default) ==
    IF lang \in DOMAIN tr /\ key \in DOMAIN tr[lang] THEN tr[lang][key] ELSE <<>>

\* translations.get(lang, {}).get(key, default)
Lookup(tr, lang, key, default) ==
    IF lang \in DOMAIN tr /\ key \in DOMAIN tr[lang] THEN tr[lang][key] ELSE default

\* the body names the languages and no key
TranslateErrorBodyNoKeys(texts, langs) == [lang \in Range(langs) |-> EmptyMap]

\* server.py lines 236-238: the "translations" entry of the body the /translate handler
\* returns when its try block raised
TranslateErrorBody(texts, langs) ==
    [lang \in Range(langs) |-> [key \in Range(texts) |-> <<>>]]

\* the mappings a 200 reply may yield: complete, nothing, every translation empty,
\* or complete but for the first key in the first language
Replies(langs, keys, value) ==
    {[lang \in Range(langs) |-> [key \in Range(keys) |-> value]],
     EmptyMap,
     TranslateErrorBody(keys, langs),
     [lang \in Range(langs) |->
         [key \in (IF lang = langs[1] THEN Range(keys) \ {keys[1]} ELSE Range(keys)) |->
             value]]}

\* the reading translate_and_save applies to the body of a 200 reply: "text" is
\* parse_request_output(response.json(), ...), "json" is response.json().get("translations")
ReadAs(outcome, expects_text) ==
    IF Failed(outcome) THEN "-" ELSE IF expects_text THEN "text" ELSE "json"

\* requests.post(...) with what came of it and how the reply was read
Posted(service, texts, langs, retranslate, outcome, expects_text) ==
    [endpoint |-> service.endpoint, headers |-> service.headers, body |-> service.body,
     texts |-> texts, target_languages |-> langs, retranslate |-> retranslate,
     outcome |-> outcome, read_as |-> ReadAs(outcome, expects_text)]

\* update_lang_file on a store that exists and parses; chosen are the conflicting keys
\* the operator answered 'new' for
MergeStore(existing_translations, new, chosen) ==
    LET updates == Update(KeysToUpdate(existing_translations, new),
                          [key \in chosen |-> new[key]])
    IN  IF updates # EmptyMap THEN Update(existing_translations, updates)
        ELSE existing_translations

RunStoreMaps ==
    {EmptyMap,
     [key \in {"Home"} |-> StoredTranslation],
     [key \in {"Home", "Bye"} |-> StoredTranslation],
     [key \in {"Home"} |-> <<>>],
     [key \in {"Bye"} |-> StoredTranslation]}

InitRun ==
    /\ OutsideRunIdle
    /\ run_pc = "filter"
    /\ stores \in [Range(target_languages) -> RunStoreMaps]
    /\ all_new_keys \in {{}, {"Home"}, {"Home", "Bye"}}
    /\ run_interactive \in BOOLEAN
    /\ no_translate \in BOOLEAN
    /\ hardcoded_translations \in {None, Some("table")}
    /\ use_cmscore_ai_first \in BOOLEAN
    /\ all_filtered_keys = {}
    /\ languages_needing_translation = <<>>
    /\ keys_list = <<>>
    /\ requests = <<>>
    /\ using_cmscore_ai = FALSE
    /\ translations = EmptyMap
    /\ keys_to_retranslate = <<>>
    /\ retranslate_results = EmptyMap
    /\ translated_keys_by_language = EmptyMap
    /\ review_pos = 1
    /\ stores_before = stores

FilteredFor(lang) ==
    filter_existing_keys(all_new_keys, [state |-> "json", data |-> stores[lang]],
                         Some("root"))

\* main, lines 1110-1128: the pre-filter, and with -t the empty entries
MainFilter ==
    /\ run_pc = "filter"
    /\ LET needing == SelectSeq(target_languages, LAMBDA lang : FilteredFor(lang) # {})
           union == UNION {FilteredFor(lang) : lang \in Range(needing)}
       IN  /\ all_filtered_keys' = union
           /\ languages_needing_translation' = needing
           /\ IF all_new_keys = {} \/ union = {} \/ needing = <<>>
              THEN run_pc' = "done" /\ UNCHANGED stores
              ELSE IF no_translate
              THEN /\ run_pc' = "done"
                   /\ stores' = [lang \in DOMAIN stores |->
                                    IF lang \in Range(needing)
                                    THEN MergeStore(stores[lang],
                                                    [key \in FilteredFor(lang) |-> <<>>], {})
                                    ELSE stores[lang]]
              ELSE run_pc' = "primary" /\ UNCHANGED stores
    /\ UNCHANGED <<all_new_keys, run_interactive, no_translate, hardcoded_translations,
                   use_cmscore_ai_first,
                   keys_list, requests, using_cmscore_ai, translations,
                   keys_to_retranslate, retranslate_results, translated_keys_by_language,
                   review_pos, stores_before, outsideRun>>

\* lines 858-862 and 997-1001: a 200 reply is read in the format expects_text names;
\* response.json() raises on a body that is not JSON, and the reading raises on a body
\* of the other format
Received(keys, service, expects_text, outcome, reply) ==
    IF outcome = "ok_not_json" \/ (service.format = "text") # expects_text
    THEN /\ run_pc' = "raised"
         /\ UNCHANGED <<translations, translated_keys_by_language>>
    ELSE /\ translations' = reply
         /\ run_pc' = IF run_interactive THEN "review" ELSE "save"
         /\ translated_keys_by_language' =
                [lang \in Range(languages_needing_translation) |->
                    IF run_interactive THEN EmptyMap
                    ELSE [key \in Range(keys) |-> Lookup(reply, lang, key, KeyText(key))]]

\* every key is stored with the text of the key
UntranslatedAsKey(langs, keys) ==
    [lang \in Range(langs) |-> [key \in Range(keys) |-> KeyText(key)]]

\* lines 1008-1010: no reply at all, every key maps to ""
Untranslated(langs, keys) ==
    [lang \in Range(langs) |-> [key \in Range(keys) |-> <<>>]]

\* the keys marked 'r' are left without an entry
FirstForRetranslatedDropped(translated, first_translations, keys) == translated

\* lines 992-995: the keys marked 'r' get their first translation in every language
FirstForRetranslated(translated, first_translations, keys) ==
    [lang \in DOMAIN translated |->
        Update(translated[lang],
               [key \in Range(keys) |-> Lookup(first_translations, lang, key, KeyText(key))])]

\* lines 779-842, and what follows when the reply is a 200; gen_hardcoded_example
\* (line 800) raises when hardcoded_translations is None
PrimaryRequest ==
    /\ run_pc = "primary"
    /\ \E order \in Orders(all_filtered_keys), outcome \in Outcomes :
         \E reply \in IF outcome = "ok"
                      THEN Replies(languages_needing_translation, order, FirstTranslation)
                      ELSE {EmptyMap} :
           LET service == PrimaryOf(use_cmscore_ai_first)
           IN  /\ keys_list' = order
               /\ using_cmscore_ai' = use_cmscore_ai_first
               /\ IF IsNone(hardcoded_translations)
                  THEN /\ run_pc' = "raised"
                       /\ UNCHANGED <<requests, translations, translated_keys_by_language>>
                  ELSE /\ requests' = Append(requests,
                                             Posted(service, order,
                                                    languages_needing_translation, FALSE,
                                                    outcome, use_cmscore_ai_first))
                       /\ IF ~Failed(outcome)
                          THEN Received(order, service, use_cmscore_ai_first, outcome,
                                        reply)
                          ELSE /\ run_pc' = "fallback"
                               /\ UNCHANGED <<translations, translated_keys_by_language>>
    /\ UNCHANGED <<stores, all_new_keys, run_interactive, no_translate,
                   hardcoded_translations,
                   use_cmscore_ai_first, all_filtered_keys, languages_needing_translation,
                   keys_to_retranslate, retranslate_results, review_pos, stores_before,
                   outsideRun>>

\* lines 844-856, and what follows: the reply when it is a 200, else "" for every key
FallbackRequest ==
    /\ run_pc = "fallback"
    /\ \E outcome \in Outcomes :
         \E reply \in IF outcome = "ok"
                      THEN Replies(languages_needing_translation, keys_list,
                                   FirstTranslation)
                      ELSE {EmptyMap} :
           LET service == SecondaryOf(use_cmscore_ai_first)
           IN  /\ requests' = Append(requests,
                                     Posted(service, keys_list,
                                            languages_needing_translation, FALSE, outcome,
                                            ~using_cmscore_ai))
               /\ using_cmscore_ai' = ~using_cmscore_ai
               /\ IF ~Failed(outcome)
                  THEN Received(keys_list, service, ~using_cmscore_ai, outcome, reply)
                  ELSE /\ run_pc' = "save"
                       /\ translated_keys_by_language' =
                              Untranslated(languages_needing_translation, keys_list)
                       /\ UNCHANGED translations
    /\ UNCHANGED <<stores, all_new_keys, run_interactive, no_translate,
                   hardcoded_translations,
                   use_cmscore_ai_first, all_filtered_keys, languages_needing_translation,
                   keys_list, keys_to_retranslate, retranslate_results, review_pos,
                   stores_before, outsideRun>>

\* translated_keys_by_language[lang][key] = value(lang) for every language
PutAll(translated, key, values) ==
    [lang \in DOMAIN translated |-> Put(translated[lang], key, values[lang])]

\* lines 867-891: the operator's decision on one key of the batch
Review ==
    /\ run_pc = "review"
    /\ LET original_key == keys_list[review_pos]
           first == [lang \in Range(languages_needing_translation) |->
                        Lookup(translations, lang, original_key, KeyText(original_key))]
           manual == [lang \in Range(languages_needing_translation) |-> ManualTranslation]
       IN  \E choice \in {"y", "r", "m"} :
               /\ translated_keys_by_language' =
                      CASE choice = "y" ->
                               PutAll(translated_keys_by_language, original_key, first)
                        [] choice = "m" ->
                               PutAll(translated_keys_by_language, original_key, manual)
                        [] OTHER -> translated_keys_by_language
               /\ keys_to_retranslate' = IF choice = "r"
                                         THEN Append(keys_to_retranslate, original_key)
                                         ELSE keys_to_retranslate
    /\ IF review_pos < Len(keys_list)
       THEN review_pos' = review_pos + 1 /\ run_pc' = "review"
       ELSE /\ review_pos' = 1
            /\ run_pc' = IF keys_to_retranslate' # <<>> THEN "retranslate" ELSE "save"
    /\ UNCHANGED <<stores, all_new_keys, run_interactive, no_translate,
                   hardcoded_translations,
                   use_cmscore_ai_first, all_filtered_keys, languages_needing_translation,
                   keys_list, requests, using_cmscore_ai, translations,
                   retranslate_results, stores_before, outsideRun>>

\* lines 893-960 and 986-996: the batch of the keys marked 'r'
RetranslateRequest ==
    /\ run_pc = "retranslate"
    /\ \E outcome \in Outcomes :
         \E reply \in IF outcome = "ok"
                      THEN Replies(languages_needing_translation, keys_to_retranslate,
                                   Retranslation)
                      ELSE {EmptyMap} :
           LET service == SecondaryOf(use_cmscore_ai_first)
           IN  /\ requests' = Append(requests,
                                     Posted(service, keys_to_retranslate,
                                            languages_needing_translation, TRUE, outcome,
                                            ~use_cmscore_ai_first))
               /\ IF Failed(outcome)
                  THEN /\ run_pc' = "save"
                       /\ translated_keys_by_language' =
                              FirstForRetranslated(translated_keys_by_language,
                                                   translations, keys_to_retranslate)
                       /\ UNCHANGED retranslate_results
                  ELSE IF outcome = "ok_not_json"
                          \/ (service.format = "text") # ~use_cmscore_ai_first
                  THEN /\ run_pc' = "raised"
                       /\ UNCHANGED <<retranslate_results, translated_keys_by_language>>
                  ELSE /\ run_pc' = "rereview"
                       /\ retranslate_results' = reply
                       /\ UNCHANGED translated_keys_by_language
    /\ review_pos' = 1
    /\ UNCHANGED <<stores, all_new_keys, run_interactive, no_translate,
                   hardcoded_translations,
                   use_cmscore_ai_first, all_filtered_keys, languages_needing_translation,
                   keys_list, using_cmscore_ai, translations, keys_to_retranslate,
                   stores_before, outsideRun>>

\* lines 961-985: the operator's choice for one key and one language
ReReview ==
    /\ run_pc = "rereview"
    /\ LET count == Len(languages_needing_translation)
           original_key == keys_to_retranslate[((review_pos - 1) \div count) + 1]
           lang == languages_needing_translation[((review_pos - 1) % count) + 1]
           first_translation == Lookup(translations, lang, original_key,
                                       KeyText(original_key))
           retranslation == Lookup(retranslate_results, lang, original_key,
                                   KeyText(original_key))
       IN  /\ \E choice \in {"1", "2", "m"} :
                 translated_keys_by_language' =
                     [translated_keys_by_language EXCEPT ![lang] =
                         Put(@, original_key,
                             CASE choice = "1" -> first_translation
                               [] choice = "2" -> retranslation
                               [] OTHER -> ManualTranslation)]
           /\ IF review_pos < count * Len(keys_to_retranslate)
              THEN review_pos' = review_pos + 1 /\ run_pc' = "rereview"
              ELSE review_pos' = 1 /\ run_pc' = "save"
    /\ UNCHANGED <<stores, all_new_keys, run_interactive, no_translate,
                   hardcoded_translations,
                   use_cmscore_ai_first, all_filtered_keys, languages_needing_translation,
                   keys_list, requests, using_cmscore_ai, translations,
                   keys_to_retranslate, retranslate_results, stores_before, outsideRun>>

\* lines 1012-1013: update_lang_file for one target language; with -i the operator
\* answers 'new' for the keys of chosen and 'existing' for the other conflicting keys
SaveLanguage ==
    /\ run_pc = "save"
    /\ LET lang == languages_needing_translation[review_pos]
           new == translated_keys_by_language[lang]
       IN  \E chosen \in IF run_interactive
                         THEN SUBSET ConflictingKeys(stores[lang], new) ELSE {{}} :
               stores' = [stores EXCEPT ![lang] = MergeStore(@, new, chosen)]
    /\ IF review_pos < Len(languages_needing_translation)
       THEN review_pos' = review_pos + 1 /\ run_pc' = "save"
       ELSE review_pos' = 1 /\ run_pc' = "done"
    /\ UNCHANGED <<all_new_keys, run_interactive, no_translate, hardcoded_translations,
                   use_cmscore_ai_first,
                   all_filtered_keys, languages_needing_translation, keys_list, requests,
                   using_cmscore_ai, translations, keys_to_retranslate,
                   retranslate_results, translated_keys_by_language, stores_before,
                   outsideRun>>

NextRun ==
    \/ MainFilter
    \/ PrimaryRequest
    \/ FallbackRequest
    \/ Review
    \/ RetranslateRequest
    \/ ReReview
    \/ SaveLanguage

SpecRun == InitRun /\ [][NextRun]_vars

\* C8: no request asks for a translation into a language of a key that already has a
\* non-empty value in that language's store, also when another target language still
\* misses the key.
C8_RequestsOnlyMissingKeys ==
    \A i \in 1..Len(requests) :
        \A lang \in Range(requests[i].target_languages), key \in Range(requests[i].texts) :
            ~(key \in DOMAIN stores_before[lang] /\ stores_before[lang][key] # <<>>)

\* C10: the secondary endpoint is requested at most once, only as the second request
\* after a primary attempt that raised or returned a status other than 200, with the
\* secondary headers and body shape, and always after such a primary attempt.
C10_SecondaryOnlyAfterPrimaryFailure ==
    LET primary == PrimaryOf(use_cmscore_ai_first)
        secondary == SecondaryOf(use_cmscore_ai_first)
        toSecondary == {i \in 1..Len(requests) : requests[i].endpoint = secondary.endpoint}
    IN  /\ Cardinality(toSecondary) <= 1
        /\ \A i \in toSecondary :
               /\ i = 2
               /\ requests[1].endpoint = primary.endpoint
               /\ Failed(requests[1].outcome)
               /\ requests[i].headers = secondary.headers
               /\ requests[i].body = secondary.body
        /\ (requests # <<>> /\ Failed(requests[1].outcome) /\ run_pc # "fallback")
               => toSecondary # {}

\* the first pass ended with both attempts failed / with a 200 reply that was read
BothFailed ==
    /\ Len(requests) = 2
    /\ Failed(requests[1].outcome)
    /\ Failed(requests[2].outcome)

FirstPassOk ==
    \E i \in 1..Len(requests) : ~requests[i].retranslate /\ requests[i].outcome = "ok"

HandedToMerge == run_pc \in {"save", "done"}

\* C11: when the primary and the secondary attempt both fail, translate_and_save goes on
\* to the merges with "" for every requested key in every target language, and does not
\* raise.
C11_BothFailEmptyStrings ==
    BothFailed =>
        /\ HandedToMerge
        /\ DOMAIN translated_keys_by_language = Range(languages_needing_translation)
        /\ \A lang \in Range(languages_needing_translation) :
               /\ DOMAIN translated_keys_by_language[lang] = Range(keys_list)
               /\ \A key \in Range(keys_list) : translated_keys_by_language[lang][key] = <<>>

\* both attempts failed for two keys and two languages, and a store got an empty entry
C11_Witness ==
    /\ BothFailed
    /\ run_pc = "done"
    /\ Len(keys_list) = 2
    /\ Len(languages_needing_translation) = 2
    /\ requests[1].outcome = "exception"
    /\ requests[2].outcome = "status500"
    /\ \E lang \in DOMAIN stores : \E key \in DOMAIN stores[lang] :
           stores[lang][key] = <<>>

\* C12: the first request goes to one service and every later one to the other, each with
\* the endpoint, headers and body of that service, the completion service first exactly
\* when use_cmscore_ai_first is set; a 200 reply is read as free text when it came from
\* the completion endpoint and through its translations field otherwise.
C12_RolesSwappedAsUnit ==
    \A i \in 1..Len(requests) :
        LET request == requests[i]
            service == IF (i = 1) = use_cmscore_ai_first THEN CompletionService
                       ELSE TranslateService
        IN  /\ request.endpoint = service.endpoint
            /\ request.headers = service.headers
            /\ request.body = service.body
            /\ ~Failed(request.outcome) =>
                   request.read_as = IF request.endpoint = CompletionService.endpoint
                                     THEN "text" ELSE "json"
            /\ (request.outcome = "ok" /\ ~request.retranslate) =>
                   using_cmscore_ai = (request.endpoint = CompletionService.endpoint)

\* with the flag set, the completion service failed and the fallback's reply was read
C12_Witness ==
    /\ use_cmscore_ai_first
    /\ Len(requests) = 2
    /\ requests[1].endpoint = CompletionService.endpoint
    /\ Failed(requests[1].outcome)
    /\ requests[2].outcome = "ok"
    /\ requests[2].read_as = "json"
    /\ HandedToMerge

\* the last request was the retranslation batch and it failed
RetranslationFailed ==
    /\ requests # <<>>
    /\ Last(requests).retranslate
    /\ Failed(Last(requests).outcome)

\* C13: with -i and a first pass that succeeded, the map handed to the merges has an
\* entry for every key of the batch in every target language, whatever the operator
\* decided; after a failed retranslation request the keys marked 'r' have their first
\* translation (the key's own text where the first reply had none) in every language.
C13_ReviewKeepsEveryKey ==
    (run_interactive /\ FirstPassOk /\ HandedToMerge) =>
        /\ DOMAIN translated_keys_by_language = Range(languages_needing_translation)
        /\ \A lang \in Range(languages_needing_translation) :
               /\ DOMAIN translated_keys_by_language[lang] = Range(keys_list)
               /\ RetranslationFailed =>
                      \A key \in Range(keys_to_retranslate) :
                          translated_keys_by_language[lang][key]
                              = Lookup(translations, lang, key, KeyText(key))

\* one key accepted, one marked 'r', the retranslation failed, two languages
C13_Witness ==
    /\ run_interactive
    /\ FirstPassOk
    /\ HandedToMerge
    /\ RetranslationFailed
    /\ Len(keys_list) = 2
    /\ Len(keys_to_retranslate) = 1
    /\ Len(languages_needing_translation) = 2
    /\ \E lang \in DOMAIN translated_keys_by_language :
           translated_keys_by_language[lang][keys_to_retranslate[1]] = FirstTranslation

\* C14: translate_and_save never raises, whatever the endpoints answer and whether or not
\* an override table is supplied.
C14_NoExceptionEscapes == run_pc # "raised"

\* the retranslation requests, in the order they were posted
RetranslationRequests == SelectSeq(requests, LAMBDA request : request.retranslate)

\* C20: the keys marked 'r' go out in one batch, and that batch is posted to the primary
\* endpoint first and to the secondary endpoint only after the primary attempt failed.
C20_RetranslationPrimaryFirst ==
    LET batch == RetranslationRequests
        primary == IF use_cmscore_ai_first THEN CompletionService ELSE TranslateService
        secondary == IF use_cmscore_ai_first THEN TranslateService ELSE CompletionService
    IN  batch # <<>> =>
            /\ \A i \in 1..Len(batch) : batch[i].texts = keys_to_retranslate
            /\ batch[1].endpoint = primary.endpoint
            /\ Len(batch) <= 2
            /\ Len(batch) = 2 => /\ Failed(batch[1].outcome)
                                 /\ batch[2].endpoint = secondary.endpoint

(***************************************************************************)
(* Specification SpecWrapped: is_already_wrapped on a byte range of a      *)
(* buffer                                                                  *)
(***************************************************************************)
\* what the byte range may hold
WrappedCores == {
    Encode(WrapOpen \o <<"a", "b">> \o WrapClose),
    Encode(WrapOpen \o WrapClose),
    Encode(WrapOpen \o <<")">>),
    Encode(WrapOpen \o <<"a", BS, SQ, "b">> \o WrapClose),
    Encode(WrapOpen \o <<"a", SQ, ".", SQ, "b">> \o WrapClose),
    Encode(WrapOpen \o <<NBSP>> \o WrapClose),
    Encode(WrapOpen \o <<"a">>) \o <<NBLead>> \o Encode(WrapClose),
    <<NBCont>> \o Encode(WrapOpen \o <<"a">> \o WrapClose),
    Encode(WrapOpen \o <<"a">> \o WrapClose \o <<";">>),
    <<"a", "b">>
}

\* the bytes before and after it
WrappedMargins == {<<>>, <<"x">>}

WrappedBuffers ==
    {before \o core \o after :
        before \in WrappedMargins, core \in WrappedCores, after \in WrappedMargins}

InitWrapped ==
    /\ OutsideWrappedIdle
    /\ wr_pc = "call"
    /\ wr_content \in WrappedBuffers
    /\ wr_start \in 0..Len(wr_content)
    /\ wr_end \in wr_start..Len(wr_content)
    /\ wr_result = None
    /\ wr_content_before = wr_content

\* the call; bytes are immutable, so the buffer is as it was
IsAlreadyWrappedCall ==
    /\ wr_pc = "call"
    /\ wr_result' = is_already_wrapped(wr_content, wr_start, wr_end)
    /\ wr_pc' = "done"
    /\ UNCHANGED <<wr_content, wr_start, wr_end, wr_content_before, outsideWrapped>>

NextWrapped == IsAlreadyWrappedCall

SpecWrapped == InitWrapped /\ [][NextWrapped]_vars

\* the body of a single-quoted literal: every quote in it is escaped, and it does not
\* end inside an escape
RECURSIVE IsLiteralBody(_)
IsLiteralBody(content) ==
    IF content = <<>> THEN TRUE
    ELSE IF Head(content) = BS THEN Len(content) >= 2 /\ IsLiteralBody(Tail(Tail(content)))
    ELSE IF Head(content) = SQ THEN FALSE
    ELSE IsLiteralBody(Tail(content))

\* the range decodes, and is one call __('content') and nothing else
IsOneWrapper(bytes) ==
    LET actual_text == DecodeIgnore(bytes)
    IN  /\ ValidUtf8(bytes)
        /\ Len(actual_text) >= Len(WrapOpen) + Len(WrapClose)
        /\ StartsWith(actual_text, WrapOpen)
        /\ EndsWith(actual_text, WrapClose)
        /\ IsLiteralBody(PySlice(actual_text, Len(WrapOpen),
                                 Len(actual_text) - Len(WrapClose)))

\* C17: is_already_wrapped returns a text exactly when the decoded range is one wrapper
\* __('content') with opening and closing part apart, one call and nothing else, and the
\* text is that content; otherwise, and on undecodable bytes, it returns None; the buffer
\* is never modified.
C17_TextIffExactlyOneWrapper ==
    wr_pc = "done" =>
        LET bytes == PySlice(wr_content, wr_start, wr_end)
            actual_text == DecodeIgnore(bytes)
        IN  /\ wr_result # None <=> IsOneWrapper(bytes)
            /\ IsOneWrapper(bytes) =>
                   wr_result = Some(PySlice(actual_text, Len(WrapOpen),
                                            Len(actual_text) - Len(WrapClose)))
            /\ wr_content = wr_content_before

\* what does hold: one wrapper is recognised and its content returned, a range that does
\* not begin with __(' or does not end with ') gives None, and the buffer stays
C17_OneWrapperRecognised ==
    wr_pc = "done" =>
        LET bytes == PySlice(wr_content, wr_start, wr_end)
            actual_text == DecodeIgnore(bytes)
        IN  /\ IsOneWrapper(bytes) =>
                   wr_result = Some(PySlice(actual_text, Len(WrapOpen),
                                            Len(actual_text) - Len(WrapClose)))
            /\ ~(StartsWith(actual_text, WrapOpen) /\ EndsWith(actual_text, WrapClose)) =>
                   wr_result = None
            /\ wr_content = wr_content_before

(***************************************************************************)
(* parse_request_output (the same statements are in server.py, translate)  *)
(***************************************************************************)
\* str.split(sep)
RECURSIVE Split(_, _)
Split(s, sep) ==
    LET i == Find(s, sep)
    IN  IF i = -1 THEN <<s>>
        ELSE <<PySlice(s, 0, i)>> \o Split(PySlice(s, i + Len(sep), Len(s)), sep)

\* lines 766-768: the translation between a leading and a trailing quote of one kind
StripQuotePair(translation) ==
    IF \/ StartsWith(translation, <<DQ>>) /\ EndsWith(translation, <<DQ>>)
       \/ StartsWith(translation, <<SQ>>) /\ EndsWith(translation, <<SQ>>)
    THEN PySlice(translation, 1, Len(translation) - 1)
    ELSE translation

\* lines 769-770: translation.rstrip('.') when the key has no final period
StripPeriods(original_key, translation) ==
    IF ~EndsWith(original_key, <<".">>) /\ EndsWith(translation, <<".">>)
    THEN RStrip(translation, {"."})
    ELSE translation

\* lines 763-772: the loop over target_languages for one stripped, non-empty line
RECURSIVE ParseLine(_, _, _, _, _)
ParseLine(parsed_so_far, line, langs, k, original_key) ==
    IF k > Len(langs) THEN parsed_so_far
    ELSE LET label == langs[k] \o <<":">>
         IN  IF StartsWith(line, label)
             THEN LET translation == Strip(PySlice(line, Len(label), Len(line)))
                      kept == StripPeriods(original_key, StripQuotePair(translation))
                  IN  [parsed_so_far EXCEPT ![langs[k]] = Put(@, original_key, kept)]
             ELSE ParseLine(parsed_so_far, line, langs, k + 1, original_key)

\* every line is read, the first included
TranslationLinesAll(lines) == lines

\* line 759: lines[1:]
TranslationLines(lines) == Tail(lines)

\* lines 759-762: the loop over the lines of one section, from line j on
RECURSIVE ParseLines(_, _, _, _, _)
ParseLines(parsed_so_far, lines, j, langs, original_key) ==
    IF j > Len(lines) THEN parsed_so_far
    ELSE LET line == Strip(lines[j])
         IN  ParseLines(IF line = <<>> THEN parsed_so_far
                        ELSE ParseLine(parsed_so_far, line, langs, 1, original_key),
                        lines, j + 1, langs, original_key)

\* lines 755-759: the loop over texts_list, from key i on
RECURSIVE ParseSections(_, _, _, _, _)
ParseSections(parsed_so_far, sections, i, texts, langs) ==
    IF i > Len(texts) THEN parsed_so_far
    ELSE ParseSections(IF i <= Len(sections)
                       THEN ParseLines(parsed_so_far,
                                       TranslationLines(Split(Strip(sections[i]), <<NL>>)),
                                       1, langs, texts[i])
                       ELSE parsed_so_far,
                       sections, i + 1, texts, langs)

\* the "translations" entry of the dict it returns
parse_request_output(text, texts, langs) ==
    ParseSections([lang \in Range(langs) |-> EmptyMap],
                  Split(Strip(text), <<NL, NL>>), 1, texts, langs)

(***************************************************************************)
(* server.py, translate: the reply parser of lines 141-160 and the handler *)
(***************************************************************************)
\* server.py lines 154-158: quotes, then periods
ServerTranslationOnePeriod(original_key, translation) ==
    LET unquoted == IF \/ StartsWith(translation, <<DQ>>) /\ EndsWith(translation, <<DQ>>)
                       \/ StartsWith(translation, <<SQ>>) /\ EndsWith(translation, <<SQ>>)
                    THEN PySlice(translation, 1, Len(translation) - 1)
                    ELSE translation
    IN  IF ~EndsWith(original_key, <<".">>) /\ EndsWith(unquoted, <<".">>)
        THEN PySlice(unquoted, 0, Len(unquoted) - 1)
        ELSE unquoted

\* server.py lines 154-158: translation[1:-1] between two quotes of one kind, then
\* translation.rstrip('.') when the key has no final period
ServerTranslation(original_key, translation) ==
    LET unquoted == IF \/ StartsWith(translation, <<DQ>>) /\ EndsWith(translation, <<DQ>>)
                       \/ StartsWith(translation, <<SQ>>) /\ EndsWith(translation, <<SQ>>)
                    THEN PySlice(translation, 1, Len(translation) - 1)
                    ELSE translation
    IN  IF ~EndsWith(original_key, <<".">>) /\ EndsWith(unquoted, <<".">>)
        THEN RStrip(unquoted, {"."})
        ELSE unquoted

\* server.py lines 151-160: the loop over target_languages for one line
RECURSIVE ServerParseLine(_, _, _, _, _)
ServerParseLine(first_so_far, line, langs, k, original_key) ==
    IF k > Len(langs) THEN first_so_far
    ELSE IF StartsWith(line, langs[k] \o <<":">>)
    THEN Update(first_so_far,
                [lang \in {langs[k]} |->
                    Put(first_so_far[lang], original_key,
                        ServerTranslation(original_key,
                                          Strip(PySlice(line, Len(langs[k]) + 1,
                                                        Len(line)))))])
    ELSE ServerParseLine(first_so_far, line, langs, k + 1, original_key)

\* server.py lines 147-150: the loop over lines[1:], from line j of the section on
RECURSIVE ServerParseLines(_, _, _, _, _)
ServerParseLines(first_so_far, lines, j, langs, original_key) ==
    IF j > Len(lines) THEN first_so_far
    ELSE IF j = 1 \/ Strip(lines[j]) = <<>>
    THEN ServerParseLines(first_so_far, lines, j + 1, langs, original_key)
    ELSE ServerParseLines(ServerParseLine(first_so_far, Strip(lines[j]), langs, 1,
                                          original_key),
                          lines, j + 1, langs, original_key)

\* server.py lines 143-146: the loop over texts_list, from key i on
RECURSIVE ServerParseSections(_, _, _, _, _)
ServerParseSections(first_so_far, sections_first, i, texts, langs) ==
    IF i > Len(texts) THEN first_so_far
    ELSE IF i > Len(sections_first)
    THEN ServerParseSections(first_so_far, sections_first, i + 1, texts, langs)
    ELSE ServerParseSections(
             ServerParseLines(first_so_far, Split(Strip(sections_first[i]), <<NL>>), 1,
                              langs, texts[i]),
             sections_first, i + 1, texts, langs)

\* what becomes of the generation call of line 139
Generations == {"replied", "raised"}

\* server.py lines 100-238 without retranslate: the body the handler answers with, a
\* returned dict and therefore status 200; translation_response_first is the reply of
\* the generation call when it did not raise
translate(generation, translation_response_first, texts, langs) ==
    IF generation = "raised"
    THEN [status_code |-> 200, translations |-> TranslateErrorBody(texts, langs),
          error |-> TRUE]
    ELSE [status_code |-> 200,
          translations |->
              ServerParseSections([lang \in Range(langs) |-> EmptyMap],
                                  Split(Strip(translation_response_first), <<NL, NL>>),
                                  1, texts, langs),
          error |-> FALSE]

(***************************************************************************)
(* Specification SpecParse: parse_request_output and the /translate        *)
(* handler on a reply                                                      *)
(***************************************************************************)
LangL == <<"L">>
LangM == <<"M">>
KeyPlain == <<"k">>
KeyPeriod == <<"k", ".">>
Header == <<"1", ".", SP, "k">>

\* the blocks a reply is made of
ReplyBlocks == {
    Header \o <<NL, "L", ":", "t">>,
    Header \o <<NL, "L", ":", SP, DQ, "t", ".", DQ, NL, "M", ":", "u">>,
    Header \o <<NL, "L", ":", "t", ".", ".">>,
    Header \o <<NL, "L", ":", SQ, "t", SQ, NL, "M", ":", "u", ".">>,
    <<"L", ":", "h">>,
    Header \o <<NL, "L", ":", "t", NL, SP, NL, "L", ":", "w", ".">>,
    Header \o <<NL, "L", ":", DQ>>,
    <<>>,
    Header \o <<NL, SP, SP, "L", ":", "t", ".", SP>>,
    Header \o <<NL, "L", ":", DQ, "t", SQ>>
}

\* at most n blocks with a blank line between them
RECURSIVE BlockRuns(_)
BlockRuns(n) ==
    IF n = 0 THEN {<<>>}
    ELSE LET shorter == BlockRuns(n - 1)
         IN  shorter \cup ReplyBlocks
                     \cup {run \o <<NL, NL>> \o block : run \in shorter \ {<<>>},
                                                        block \in ReplyBlocks}

ReplyTexts == {pad \o run : pad \in {<<>>, <<NL>>}, run \in BlockRuns(MaxBlocks)}

InitParse ==
    /\ OutsideParseIdle
    /\ ps_pc = "call"
    /\ response_text \in ReplyTexts
    /\ texts_list \in {<<KeyPlain>>, <<KeyPeriod>>, <<KeyPlain, KeyPeriod>>,
                       <<KeyPeriod, KeyPlain>>}
    /\ parse_languages \in {<<LangL>>, <<LangL, LangM>>, <<LangM, LangL>>}
    /\ parsed = EmptyMap
    /\ translate_reply = None

ParseRequestOutput ==
    /\ ps_pc = "call"
    /\ parsed' = parse_request_output(response_text, texts_list, parse_languages)
    /\ ps_pc' = "done"
    /\ UNCHANGED <<response_text, texts_list, parse_languages, translate_reply,
                   outsideParse>>

\* server.py, the /translate handler from its try on (lines 100-238) for a request
\* without retranslate: the generation call raises, or its reply is response_text;
\* the client is run first so that the two results stand side by side
Translate ==
    /\ ps_pc = "done"
    /\ translate_reply = None
    /\ \E generation \in Generations :
           translate_reply' = Some(translate(generation, response_text, texts_list,
                                             parse_languages))
    /\ ps_pc' = "answered"
    /\ UNCHANGED <<response_text, texts_list, parse_languages, parsed, outsideParse>>

NextParse ==
    \/ ParseRequestOutput
    \/ Translate

SpecParse == InitParse /\ [][NextParse]_vars

\* the blocks of the reply: the parts of the stripped reply between blank lines, a blank
\* line being two line feeds in a row
Sections == Split(Strip(response_text), <<NL, NL>>)

\* the lines of block i, none when the reply has fewer blocks
BlockLines(i) ==
    IF i <= Len(Sections) THEN Split(Strip(Sections[i]), <<NL>>) ELSE <<>>

\* the lines of block i after the first that carry the label of lang
Hits(i, lang) ==
    {j \in 2..Len(BlockLines(i)) : StartsWith(Strip(BlockLines(i)[j]), lang \o <<":">>)}

\* what the last such line says after the label
Said(i, lang) ==
    LET j == CHOOSE j \in Hits(i, lang) : \A other \in Hits(i, lang) : other <= j
        line == Strip(BlockLines(i)[j])
    IN  Strip(PySlice(line, Len(lang) + 1, Len(line)))

\* C18: the result has exactly the requested languages and only input keys; the i-th key
\* has an entry under a language exactly when the i-th block of the reply has a line
\* after its first that carries that language's label, and the entry comes from that
\* block's last such line; keys beyond the last block have no entry, blocks beyond the
\* last key are not read.
C18_PositionalAssignment ==
    ps_pc = "done" =>
        /\ DOMAIN parsed = Range(parse_languages)
        /\ \A lang \in Range(parse_languages) :
               /\ DOMAIN parsed[lang] \subseteq Range(texts_list)
               /\ \A i \in 1..Len(texts_list) :
                      /\ texts_list[i] \in DOMAIN parsed[lang] <=> Hits(i, lang) # {}
                      /\ i > Len(Sections) => texts_list[i] \notin DOMAIN parsed[lang]
                      /\ Hits(i, lang) # {} =>
                             parsed[lang][texts_list[i]]
                                 = StripPeriods(texts_list[i], StripQuotePair(Said(i, lang)))

\* two keys, two blocks: the first block's first line carries a label and is not read,
\* the second key's entry comes from the second block
C18_Witness ==
    /\ ps_pc = "done"
    /\ Len(texts_list) = 2
    /\ Len(Sections) = 2
    /\ StartsWith(BlockLines(1)[1], LangL \o <<":">>)
    /\ texts_list[1] \notin DOMAIN parsed[LangL]
    /\ texts_list[2] \in DOMAIN parsed[LangL]

\* fewer blocks than keys / more blocks than keys
C18_WitnessSurplus ==
    /\ ps_pc = "done"
    /\ Len(texts_list) # Len(Sections)
    /\ \E lang \in DOMAIN parsed : parsed[lang] # EmptyMap

\* one bounding quote pair removed, then one final period removed when the key has none
OnePairOnePeriod(original_key, translation) ==
    LET paired == /\ Len(translation) >= 2
                  /\ translation[1] \in {DQ, SQ}
                  /\ translation[Len(translation)] = translation[1]
        unquoted == IF paired THEN PySlice(translation, 1, Len(translation) - 1)
                    ELSE translation
    IN  IF ~EndsWith(original_key, <<".">>) /\ EndsWith(unquoted, <<".">>)
        THEN PySlice(unquoted, 0, Len(unquoted) - 1)
        ELSE unquoted

\* C19: an entry is what the line says after the label, without one bounding quote pair
\* and, when the key does not end with a period, without exactly one final period; when
\* the key ends with a period the periods are kept.
C19_OnePairOnePeriodRemoved ==
    ps_pc = "done" =>
        \A lang \in Range(parse_languages) : \A i \in 1..Len(texts_list) :
            Hits(i, lang) # {} =>
                parsed[lang][texts_list[i]] = OnePairOnePeriod(texts_list[i], Said(i, lang))

(***************************************************************************)
(* Further properties of the extractor and the rewrite (SpecRewrite)       *)
(***************************************************************************)
\* the text nodes and attribute_value children of a list of nodes, in file order
RECURSIVE LeavesOf(_)
LeavesOf(nodes) ==
    IF nodes = <<>> THEN <<>>
    ELSE (IF Head(nodes).type = "attribute" THEN LeavesOf(Head(nodes).children)
          ELSE <<Head(nodes)>>)
         \o LeavesOf(Tail(nodes))

\* the record's span lies in the leaf and holds the bytes of the leaf's trimmed content
SpanIsTrimmedContent(change, leaf, original_content) ==
    /\ leaf.type \in {"text", "attribute_value"}
    /\ leaf.start_byte <= change.start_byte
    /\ change.end_byte <= leaf.end_byte
    /\ PySlice(original_content, change.start_byte, change.end_byte)
           = Encode(Strip(DecodeIgnore(PySlice(original_content, leaf.start_byte,
                                               leaf.end_byte))))

\* C21: for every record, of a text node or of an attribute, the bytes of the original
\* buffer at [start_byte, end_byte) are exactly the UTF-8 bytes of its node's trimmed
\* content, multi-byte characters in the content or in the whitespace before it included.
C21_SpanHoldsTrimmedContent ==
    rw_pc = "found" =>
        LET leaves == LeavesOf(ParseFile(blade_content, 0))
        IN  \A i \in 1..Len(nodes_to_wrap) :
                \E k \in 1..Len(leaves) :
                    SpanIsTrimmedContent(nodes_to_wrap[i], leaves[k], blade_content)

\* the part of C21 that holds: the records of text nodes
C21_TextNodeSpanHoldsTrimmedContent ==
    rw_pc = "found" =>
        LET leaves == LeavesOf(ParseFile(blade_content, 0))
        IN  \A i \in 1..Len(nodes_to_wrap) :
                ~IsAttribute(nodes_to_wrap[i]) =>
                    \E k \in 1..Len(leaves) :
                        SpanIsTrimmedContent(nodes_to_wrap[i], leaves[k], blade_content)

\* the stripped text of a value-text child
ChildText(child, original_content) ==
    Strip(DecodeIgnore(PySlice(original_content, child.start_byte, child.end_byte)))

\* a record of an attribute whose span lies in the child
HasRecordIn(changes, child) ==
    \E i \in 1..Len(changes) :
        /\ IsAttribute(changes[i])
        /\ child.start_byte <= changes[i].start_byte
        /\ changes[i].end_byte <= child.end_byte

\* C22: in a quoted value of an allow-listed attribute a value-text child yields a record
\* exactly when its trimmed value does not begin with $ and is non-empty, non-numeric and
\* longer than one character, wherever it stands among the children; an unquoted value
\* yields no record.
C22_OnlyDollarChildrenSkipped ==
    rw_pc = "found" =>
        LET nodes == ParseFile(blade_content, 0)
        IN  \A n \in 1..Len(nodes) :
                (/\ nodes[n].type = "attribute"
                 /\ LStrip(nodes[n].original_attr, {":"}) \in translatable_attributes) =>
                    IF nodes[n].value_type = "quoted_attribute_value"
                    THEN \A k \in 1..Len(nodes[n].children) :
                             LET child == nodes[n].children[k]
                                 value == ChildText(child, blade_content)
                             IN  child.type = "attribute_value" =>
                                     (HasRecordIn(nodes_to_wrap, child)
                                          <=> /\ ~StartsWith(value, <<"$">>)
                                              /\ value # <<>>
                                              /\ ~IsNumeric(value)
                                              /\ Len(value) > 1)
                    ELSE ~HasRecordIn(nodes_to_wrap, nodes[n])

\* what holds: the children before the first $ child are treated so, and no child from
\* the first $ child on yields a record
C22_ChildrenUpToFirstDollar ==
    rw_pc = "found" =>
        LET nodes == ParseFile(blade_content, 0)
        IN  \A n \in 1..Len(nodes) :
                (/\ nodes[n].type = "attribute"
                 /\ LStrip(nodes[n].original_attr, {":"}) \in translatable_attributes) =>
                    IF nodes[n].value_type = "quoted_attribute_value"
                    THEN \A k \in 1..Len(nodes[n].children) :
                             LET child == nodes[n].children[k]
                                 value == ChildText(child, blade_content)
                                 after_dollar ==
                                     \E j \in 1..k :
                                         /\ nodes[n].children[j].type = "attribute_value"
                                         /\ StartsWith(ChildText(nodes[n].children[j],
                                                                 blade_content), <<"$">>)
                             IN  child.type = "attribute_value" =>
                                     (HasRecordIn(nodes_to_wrap, child)
                                          <=> /\ ~after_dollar
                                              /\ value # <<>>
                                              /\ ~IsNumeric(value)
                                              /\ Len(value) > 1)
                    ELSE ~HasRecordIn(nodes_to_wrap, nodes[n])

(***************************************************************************)
(* Specification SpecDirective: is_blade_directive on a text               *)
(***************************************************************************)
DirectiveTokens == {
    <<"@">>, <<"i", "f">>, <<"x", "y">>, <<"(">>, <<")">>, <<SP>>, <<"\t">>, <<".">>,
    <<"b", "l", "o", "c", "k", "(">>
}

\* the texts of at most n tokens
RECURSIVE TokenTexts(_)
TokenTexts(n) ==
    IF n = 0 THEN {<<>>}
    ELSE LET shorter == TokenTexts(n - 1)
         IN  shorter \cup {text \o token : text \in shorter, token \in DirectiveTokens}

InitDirective ==
    /\ OutsideDirectiveIdle
    /\ dr_pc = "call"
    /\ dr_text \in TokenTexts(MaxTokens)
    /\ dr_result = FALSE

IsBladeDirectiveCall ==
    /\ dr_pc = "call"
    /\ dr_result' = is_blade_directive(dr_text)
    /\ dr_pc' = "done"
    /\ UNCHANGED <<dr_text, outsideDirective>>

NextDirective == IsBladeDirectiveCall

SpecDirective == InitDirective /\ [][NextDirective]_vars

\* the letters a text begins with
RECURSIVE LettersPrefix(_)
LettersPrefix(s) ==
    IF s # <<>> /\ Head(s) \in Letters THEN <<Head(s)>> \o LettersPrefix(Tail(s)) ELSE <<>>

\* @identifier, or @identifier(...): an argument list in parentheses up to the end
HasDirectiveShape(text) ==
    LET identifier == LettersPrefix(Tail(text))
        after == SubSeq(text, Len(identifier) + 2, Len(text))
    IN  /\ identifier # <<>>
        /\ \/ after = <<>>
           \/ Len(after) >= 2 /\ Head(after) = "(" /\ after[Len(after)] = ")"

NamePart(directive_part) ==
    LET stops == {i \in 1..Len(directive_part) : directive_part[i] \in {"(", SP}}
        cut == IF stops = {} THEN Len(directive_part) + 1
               ELSE CHOOSE i \in stops : \A j \in stops : i <= j
    IN  SubSeq(directive_part, 1, cut - 1)

C23_WitnessProse ==
    /\ dr_pc = "done"
    /\ ~dr_result
    /\ dr_text = <<"@", "x", "y", SP, "i", "f">>

(***************************************************************************)
(* Specification SpecMain: main from the loop over args.files to the call  *)
(* of translate_and_save.  A file of args.files is [accepted, root, keys,  *)
(* raises]: whether it is a .blade.php file outside the excluded           *)
(* directories, the project root its path gives, the keys process_file     *)
(* returns for it, and whether process_file raises.  A directory argument  *)
(* runs the same statements for each file os.walk yields (lines 1083-1104).*)
(***************************************************************************)
ConfigSourceLanguage == "en"
ConfigTargetLanguages == <<"L1">>

\* get_source_and_target_languages(project_root): (src, tgts), (None, None) when the root
\* is None or has no usable .env / theorigo.php
DetectedLanguages(root) ==
    IF root = Some("A") THEN [src |-> Some("en"), tgts |-> Some(<<"L1", "L2">>)]
    ELSE IF root = Some("B") THEN [src |-> Some("fr"), tgts |-> Some(<<"L3">>)]
    ELSE [src |-> None, tgts |-> None]

PathKinds ==
    {[accepted |-> FALSE, root |-> None, keys |-> {}, raises |-> FALSE]}
    \cup {[accepted |-> TRUE, root |-> root, keys |-> keys, raises |-> FALSE] :
             root \in {None, Some("A"), Some("B")}, keys \in {{}, {"Home"}, {"Bye"}}}
    \cup {[accepted |-> TRUE, root |-> Some("A"), keys |-> {}, raises |-> TRUE]}

\* the argument lists of at most n files
RECURSIVE PathLists(_)
PathLists(n) ==
    IF n = 0 THEN {<<>>}
    ELSE LET shorter == PathLists(n - 1)
         IN  shorter \cup {Append(paths, path) : paths \in shorter, path \in PathKinds}

MainLanguages == {"L1", "L2", "L3"}

MainStoreChoices == {
    [lang \in MainLanguages |-> EmptyMap],
    [lang \in MainLanguages |-> IF lang = "L1" THEN [key \in {"Home"} |-> StoredTranslation]
                                ELSE EmptyMap],
    [lang \in MainLanguages |-> [key \in {"Home"} |-> StoredTranslation]],
    [lang \in MainLanguages |-> [key \in {"Home", "Bye"} |-> StoredTranslation]]
}

InitMain ==
    /\ OutsideMainIdle
    /\ mn_pc = "loop"
    /\ path_args \in PathLists(MaxFiles) \ {<<>>}
    /\ path_pos = 1
    /\ file_found = FALSE
    /\ valid_file_path = None
    /\ main_project_root = None
    /\ locale_checked = FALSE
    /\ main_source_language = ConfigSourceLanguage
    /\ main_target_languages = ConfigTargetLanguages
    /\ main_all_new_keys = {}
    /\ main_no_translate \in BOOLEAN
    /\ main_stores \in MainStoreChoices
    /\ main_log = <<>>
    /\ translate_calls = <<>>

\* lines 1065-1082: one iteration of the loop over args.files
MainPath ==
    /\ mn_pc = "loop"
    /\ path_pos <= Len(path_args)
    /\ LET path == path_args[path_pos]
           first == path.accepted /\ IsNone(valid_file_path)
           detected == DetectedLanguages(path.root)
       IN  /\ file_found' = (file_found \/ path.accepted)
           /\ valid_file_path' = IF first THEN Some(path_pos) ELSE valid_file_path
           /\ main_project_root' = IF first THEN path.root ELSE main_project_root
           /\ locale_checked' = (locale_checked \/ first)
           /\ main_source_language' =
                  IF first /\ ~locale_checked /\ ~IsNone(detected.src)
                  THEN Get(detected.src) ELSE main_source_language
           /\ main_target_languages' =
                  IF first /\ ~locale_checked /\ ~IsNone(detected.tgts)
                  THEN Get(detected.tgts) ELSE main_target_languages
           /\ main_log' = main_log
                          \o (IF first /\ ~locale_checked THEN <<[event |-> "detect",
                                                                  path |-> path_pos]>>
                              ELSE <<>>)
                          \o (IF path.accepted THEN <<[event |-> "process_file",
                                                       path |-> path_pos]>>
                              ELSE <<>>)
           /\ main_all_new_keys' = IF path.accepted /\ ~path.raises
                                   THEN main_all_new_keys \cup path.keys
                                   ELSE main_all_new_keys
           /\ mn_pc' = IF path.accepted /\ path.raises THEN "raised" ELSE "loop"
    /\ path_pos' = path_pos + 1
    /\ UNCHANGED <<path_args, main_no_translate, main_stores, translate_calls, outsideMain>>

\* every key of every file counts as missing
MainUnfilteredFor(lang) == main_all_new_keys

\* line 1114: filter_existing_keys(all_new_keys, target_language, project_root)
MainFilteredFor(lang) ==
    filter_existing_keys(main_all_new_keys, [state |-> "json", data |-> main_stores[lang]],
                         main_project_root)

\* lines 1105-1128: after the loop
MainAfterScan ==
    /\ mn_pc = "loop"
    /\ path_pos > Len(path_args)
    /\ LET needing == SelectSeq(main_target_languages,
                                LAMBDA lang : MainFilteredFor(lang) # {})
           union == UNION {MainFilteredFor(lang) : lang \in Range(needing)}
       IN  translate_calls' =
               IF /\ file_found
                  /\ main_all_new_keys # {}
                  /\ union # {} /\ needing # <<>>
                  /\ ~main_no_translate
               THEN Append(translate_calls,
                           [keys_to_translate |-> union,
                            source_language |-> main_source_language,
                            target_languages |-> needing,
                            project_root |-> main_project_root,
                            after |-> main_log])
               ELSE translate_calls
    /\ mn_pc' = "done"
    /\ UNCHANGED <<path_args, path_pos, file_found, valid_file_path, main_project_root,
                   locale_checked, main_source_language, main_target_languages,
                   main_all_new_keys, main_no_translate, main_stores, main_log, outsideMain>>

NextMain ==
    \/ MainPath
    \/ MainAfterScan

SpecMain == InitMain /\ [][NextMain]_vars

\* the positions of the accepted files among the first n
AcceptedUpTo(n) == {i \in 1..n : i <= Len(path_args) /\ path_args[i].accepted}

\* the process_file calls of the log
ProcessLog == SelectSeq(main_log, LAMBDA entry : entry.event = "process_file")

DetectLog == SelectSeq(main_log, LAMBDA entry : entry.event = "detect")

\* the keys of all files processed
KeysOfAllFiles == UNION {path_args[i].keys : i \in AcceptedUpTo(Len(path_args))}

\* files one after another, detection once and from the first accepted file
ScanInOrder ==
    /\ Len(ProcessLog) = Cardinality(AcceptedUpTo(path_pos - 1))
    /\ \A i \in 1..Len(ProcessLog) :
           /\ ProcessLog[i].path \in AcceptedUpTo(path_pos - 1)
           /\ \A j \in 1..Len(ProcessLog) : i < j => ProcessLog[i].path < ProcessLog[j].path
    /\ Len(DetectLog) <= 1
    /\ AcceptedUpTo(path_pos - 1) # {} =>
           LET first == CHOOSE i \in AcceptedUpTo(path_pos - 1) :
                            \A j \in AcceptedUpTo(path_pos - 1) : i <= j
               detected == DetectedLanguages(path_args[first].root)
           IN  /\ Len(DetectLog) = 1
               /\ DetectLog[1].path = first
               /\ main_log[1] = DetectLog[1]
               /\ valid_file_path = Some(first)
               /\ main_project_root = path_args[first].root
               /\ main_source_language = IF IsNone(detected.src) THEN ConfigSourceLanguage
                                         ELSE Get(detected.src)
               /\ main_target_languages = IF IsNone(detected.tgts) THEN ConfigTargetLanguages
                                          ELSE Get(detected.tgts)

\* at most one call, after the last file
TranslateOnceAfterScan ==
    /\ Len(translate_calls) <= 1
    /\ translate_calls # <<>> =>
           /\ mn_pc = "done"
           /\ path_pos > Len(path_args)
           /\ translate_calls[1].after = main_log
           /\ Len(ProcessLog) = Cardinality(AcceptedUpTo(Len(path_args)))
           /\ translate_calls[1].project_root = main_project_root
           /\ translate_calls[1].source_language = main_source_language

\* C24: files are processed one after another; project root and languages are detected
\* once, from the first accepted file, and later files do not change them;
\* translate_and_save is called at most once, after the last file, with the union of the
\* keys of all files.
C24_OneBatchOfAllKeys ==
    /\ ScanInOrder
    /\ TranslateOnceAfterScan
    /\ translate_calls # <<>> => translate_calls[1].keys_to_translate = KeysOfAllFiles

\* C24 as it holds: the call carries the keys of all files that filter_existing_keys keeps
\* for at least one target language (absent from its store, or stored blank), and the
\* languages for which it keeps a key.
C24_OneBatchOfMissingKeys ==
    /\ ScanInOrder
    /\ TranslateOnceAfterScan
    /\ translate_calls # <<>> =>
           LET call == translate_calls[1]
               missing(lang) ==
                   {key \in KeysOfAllFiles :
                       \/ IsNone(main_project_root)
                       \/ key \notin DOMAIN main_stores[lang]
                       \/ Strip(main_stores[lang][key]) = <<>>}
           IN  /\ call.keys_to_translate
                      = UNION {missing(lang) : lang \in Range(main_target_languages)}
               /\ call.keys_to_translate # {}
               /\ call.target_languages
                      = SelectSeq(main_target_languages, LAMBDA lang : missing(lang) # {})

\* three files of two projects with different keys, one key stored already: one call,
\* with the languages of the first file's project and the key that is missing
C24_Witness ==
    /\ mn_pc = "done"
    /\ Len(translate_calls) = 1
    /\ Len(ProcessLog) = 3
    /\ path_args[1].root = Some("A")
    /\ path_args[2].root = Some("B")
    /\ translate_calls[1].project_root = Some("A")
    /\ KeysOfAllFiles = {"Home", "Bye"}
    /\ translate_calls[1].keys_to_translate = {"Bye"}
    /\ translate_calls[1].target_languages = <<"L1", "L2">>

(***************************************************************************)
(* The frame of the rewrite (SpecRewrite)                                  *)
(***************************************************************************)
\* the bytes put in place of an approved record's span, computed on the original buffer;
\* a wrapped dynamic attribute that -i lists as approved without asking keeps its bytes
ReplacementBytes(change, original_content, interactive) ==
    LET already_wrapped ==
            ~IsNone(is_already_wrapped(original_content, change.start_byte, change.end_byte))
    IN  IF interactive /\ already_wrapped /\ IsAttribute(change)
               /\ change.is_dynamic_attribute
        THEN PySlice(original_content, change.start_byte, change.end_byte)
        ELSE Encode(WrappedText(change, already_wrapped, original_content))

\* the original buffer from cursor on, read left to right, in which the spans of
\* approved[1..k] (descending by start_byte) are replaced
RECURSIVE Rebuilt(_, _, _, _, _)
Rebuilt(original_content, approved, k, cursor, interactive) ==
    IF k = 0 THEN PySlice(original_content, cursor, Len(original_content))
    ELSE PySlice(original_content, cursor, approved[k].start_byte)
         \o ReplacementBytes(approved[k], original_content, interactive)
         \o Rebuilt(original_content, approved, k - 1, approved[k].end_byte, interactive)

\* how far the approved records to the left of a byte offset move it
RECURSIVE ShiftBefore(_, _, _, _, _)
ShiftBefore(original_content, approved, k, offset, interactive) ==
    IF k = 0 THEN 0
    ELSE (IF approved[k].start_byte < offset
          THEN Len(ReplacementBytes(approved[k], original_content, interactive))
                   - (approved[k].end_byte - approved[k].start_byte)
          ELSE 0)
         + ShiftBefore(original_content, approved, k - 1, offset, interactive)

\* apply_changes has gone through all its records
ApplyChangesDone == rw_pc = "returned" /\ last_step # None

\* C25: the buffer apply_changes returns is the original buffer in which the span of each
\* approved record is replaced by its replacement and every other byte stands unchanged
\* and in the original order; the bytes of a rejected record's span are the original ones.
C25_ByteExactFrame ==
    ApplyChangesDone =>
        /\ modified_content =
               Rebuilt(blade_content, approved_changes, Len(approved_changes), 0,
                       is_interactive)
        /\ \A i \in 1..Len(rejected_changes) :
               LET r == rejected_changes[i]
                   shift == ShiftBefore(blade_content, approved_changes,
                                        Len(approved_changes), r.start_byte, is_interactive)
               IN  PySlice(modified_content, r.start_byte + shift, r.end_byte + shift)
                       = PySlice(blade_content, r.start_byte, r.end_byte)

\* a rejected record stands to the right of an approved record whose replacement changed
\* the length, so that its bytes moved
C25_Witness ==
    /\ ApplyChangesDone
    /\ is_interactive
    /\ Len(rejected_changes) = 1
    /\ Len(approved_changes) = 1
    /\ changes_applied = 1
    /\ rejected_changes[1].start_byte > approved_changes[1].start_byte
    /\ Len(modified_content) # Len(blade_content)

\* without -i two replaced spans, both of changed length
C25_WitnessTwoSpans ==
    /\ ApplyChangesDone
    /\ ~is_interactive
    /\ changes_applied = 2
    /\ Len(modified_content) > Len(blade_content)

(***************************************************************************)
(* Further properties of the merge (SpecMerge)                             *)
(***************************************************************************)
\* the loop of lines 565-576 has run and no prompt has been answered yet
MergeClassified ==
    /\ ~IsNone(project_root)
    /\ mg_pc \in {"prompt", "done"}
    /\ \A key \in MergeKeys : answers[key] = <<>>

\* what the claim requires of one key, for a given reading of "may be overwritten"
ClassifiedAs(key, overwritable) ==
    /\ key \in DOMAIN keys_to_update <=> overwritable
    /\ key \in conflicting_keys <=> ~overwritable
    /\ overwritable => keys_to_update[key] = lang_new_keys[key]
    /\ (overwritable /\ mg_pc = "done") =>
           (key \in DOMAIN StoreNow /\ StoreNow[key] = lang_new_keys[key])

\* C26 as stated: a new value replaces the store entry of its key exactly when the key
\* is absent from the store, its stored value is "" or its stored value equals the new
\* value; any other stored string, one of whitespace only included, makes it a conflict.
C26_OverwriteUnlessNonEmpty ==
    MergeClassified =>
        \A key \in DOMAIN lang_new_keys :
            ClassifiedAs(key, \/ key \notin DOMAIN StoreBefore
                              \/ StoreBefore[key] = <<>>
                              \/ StoreBefore[key] = lang_new_keys[key])

\* C26 amended: a new value replaces the store entry of its key exactly when the key is
\* absent from the store, its stored value is blank (empty after stripping whitespace) or
\* its stored value equals the new value; any other stored string makes it a conflict.
C26_OverwriteUnlessNonBlank ==
    MergeClassified =>
        \A key \in DOMAIN lang_new_keys :
            ClassifiedAs(key, \/ key \notin DOMAIN StoreBefore
                              \/ Strip(StoreBefore[key]) = <<>>
                              \/ StoreBefore[key] = lang_new_keys[key])

\* a stored value of whitespace only was replaced while another key became a conflict
C26_Witness ==
    /\ MergeClassified
    /\ mg_pc = "done"
    /\ \E key \in DOMAIN lang_new_keys \cap DOMAIN StoreBefore :
           /\ StoreBefore[key] # <<>>
           /\ Strip(StoreBefore[key]) = <<>>
           /\ StoreBefore[key] # lang_new_keys[key]
           /\ key \in DOMAIN keys_to_update
           /\ StoreNow[key] = lang_new_keys[key]
    /\ conflicting_keys # {}

\* the store file as update_lang_file found it, created empty when it was absent
\* (lines 549-552)
StoreFileFound ==
    IF merge_before.lang_file.state = "absent" /\ ~IsNone(project_root)
    THEN [state |-> "json", data |-> EmptyMap]
    ELSE merge_before.lang_file

\* C27: update_lang_file deletes no key and changes the value of no key outside the new
\* map; after the merge the store holds the existing keys and the updated keys and no
\* others; when there is nothing to update the store file is not written again.
C27_MergeFrame ==
    /\ mg_pc \in {"prompt", "done"} =>
           \A key \in DOMAIN StoreBefore :
               /\ key \in DOMAIN StoreNow
               /\ key \notin DOMAIN lang_new_keys => StoreNow[key] = StoreBefore[key]
    /\ mg_pc = "prompt" => lang_file = StoreFileFound
    /\ mg_pc = "done" =>
           /\ DOMAIN StoreNow = DOMAIN StoreBefore \cup DOMAIN keys_to_update
           /\ \A key \in DOMAIN keys_to_update : StoreNow[key] = keys_to_update[key]
           /\ keys_to_update = EmptyMap =>
                  /\ lang_file = StoreFileFound
                  /\ file_writes = IF lang_file = merge_before.lang_file THEN 0 ELSE 1

\* a merge that added a key to a store holding a key outside the new map
C27_Witness ==
    /\ MergeRan
    /\ file_writes = 1
    /\ \E key \in DOMAIN StoreBefore :
           key \notin DOMAIN lang_new_keys /\ StoreNow[key] = StoreBefore[key]
    /\ \E key \in DOMAIN keys_to_update : key \notin DOMAIN StoreBefore
    /\ DOMAIN StoreNow # DOMAIN StoreBefore

\* a merge whose new keys were all conflicts: nothing to update, no write
C27_WitnessNoWrite ==
    /\ MergeRan
    /\ lang_new_keys # EmptyMap
    /\ keys_to_update = EmptyMap
    /\ file_writes = 0
    /\ lang_file = merge_before.lang_file

(***************************************************************************)
(* Further properties of the translation orchestrator (SpecRun)            *)
(***************************************************************************)
\* the reply that was read holds a translation of key into lang
Translated(lang, key) ==
    lang \in DOMAIN translations /\ key \in DOMAIN translations[lang]

\* C28: without -i and with a 200 reply that was read, the map handed to the merge of
\* each target language has exactly the requested keys; a key the reply holds no
\* translation of in that language has the text of the key as its value, and that is
\* what a store that had no value for the key holds after the merge.
C28_TotalWithKeyTextDefault ==
    (~run_interactive /\ FirstPassOk /\ HandedToMerge) =>
        /\ DOMAIN translated_keys_by_language = Range(languages_needing_translation)
        /\ \A lang \in Range(languages_needing_translation) :
               /\ DOMAIN translated_keys_by_language[lang] = Range(keys_list)
               /\ \A key \in Range(keys_list) :
                      /\ translated_keys_by_language[lang][key] =
                             IF Translated(lang, key) THEN translations[lang][key]
                             ELSE KeyText(key)
                      /\ (/\ run_pc = "done"
                          /\ \/ key \notin DOMAIN stores_before[lang]
                             \/ Strip(stores_before[lang][key]) = <<>>) =>
                             /\ key \in DOMAIN stores[lang]
                             /\ stores[lang][key] = translated_keys_by_language[lang][key]

\* the reply lacked one key in one language only, and that language's store now holds
\* the text of the key for it, next to a translation of another key
C28_Witness ==
    /\ ~run_interactive
    /\ FirstPassOk
    /\ run_pc = "done"
    /\ Len(keys_list) = 2
    /\ \E lang \in Range(languages_needing_translation) :
           \E key, other \in Range(keys_list) :
               /\ lang \in DOMAIN translations
               /\ ~Translated(lang, key)
               /\ Translated(lang, other)
               /\ key \notin DOMAIN stores_before[lang]
               /\ stores[lang][key] = KeyText(key)
               /\ stores[lang][other] = FirstTranslation

(***************************************************************************)
(* The two reply parsers (SpecParse)                                       *)
(***************************************************************************)
\* the /translate handler has answered, its generation call having replied
TranslateParsed ==
    ps_pc = "answered" /\ translate_reply # None /\ ~Get(translate_reply).error

\* C29: for every reply text, key list and language list the parser in the /translate
\* handler and parse_request_output yield the same mapping language -> key ->
\* translation.
C29_ParsersAgree ==
    TranslateParsed => Get(translate_reply).translations = parsed

\* the two agree on a reply from which quotes and periods were removed, for two keys
C29_Witness ==
    /\ TranslateParsed
    /\ Len(texts_list) = 2
    /\ Len(parse_languages) = 2
    /\ \E lang \in DOMAIN parsed :
           /\ texts_list[1] \in DOMAIN parsed[lang]
           /\ parsed[lang][texts_list[1]] = <<"t">>
           /\ Hits(1, lang) # {}
           /\ Said(1, lang) = <<DQ, "t", ".", DQ>>
    /\ \E lang \in DOMAIN parsed : texts_list[2] \in DOMAIN parsed[lang]
    /\ Get(translate_reply).translations = parsed

(***************************************************************************)
(* A generation call that raises in the /translate handler (SpecRun)       *)
(***************************************************************************)
\* request i is a first-pass request the /translate handler answered, and the reply
\* that was read is the body the handler returns when its generation call raised
AnsweredWithErrorBody(i) ==
    /\ ~requests[i].retranslate
    /\ requests[i].endpoint = TranslateService.endpoint
    /\ requests[i].outcome = "ok"
    /\ requests[i].read_as = "json"
    /\ run_pc # "raised"
    /\ translations =
           translate("raised", <<>>, requests[i].texts, requests[i].target_languages)
               .translations

C30_WitnessAsSecondary ==
    /\ use_cmscore_ai_first
    /\ Len(requests) = 2
    /\ Failed(requests[1].outcome)
    /\ AnsweredWithErrorBody(2)
    /\ run_pc = "done"

====
